---- MODULE Spec2Model ----
(***************************************************************************)
(* Model of the emission-metrics toolkit: the scenario-response            *)
(* convolution (scenarios/temperature_scenarios.py) and the potential      *)
(* engine (metrics/slp.py, metrics/co2.py).                                *)
(*                                                                         *)
(* Numbers are exact rationals [n |-> numerator, d |-> denominator > 0]    *)
(* kept in lowest terms, so that two numbers are equal exactly when their  *)
(* records are equal.  Floating-point rounding is not modelled.            *)
(***************************************************************************)
EXTENDS Integers, Sequences, FiniteSets, TLC

VARIABLES conv, mix, single, pot, stat, unc, eff, mask, erfu, drv, sel

vars == <<conv, mix, single, pot, stat, unc, eff, mask, erfu, drv, sel>>

----------------------------------------------------------------------------
(* Exact rational arithmetic                                               *)

Abs(x) == IF x < 0 THEN -x ELSE x

RECURSIVE GCD(_, _)
GCD(a, b) == IF b = 0 THEN a ELSE GCD(b, a % b)

Rat(n, d) ==
    LET g == GCD(Abs(n), Abs(d))
        s == IF d < 0 THEN -1 ELSE 1
    IN  [n |-> s * (n \div g), d |-> s * (d \div g)]

RInt(k) == [n |-> k, d |-> 1]

RZero == RInt(0)

RNeg(x) == [n |-> -x.n, d |-> x.d]

RAdd(x, y) ==
    LET g == GCD(x.d, y.d)
    IN  Rat(x.n * (y.d \div g) + y.n * (x.d \div g), (x.d \div g) * y.d)

RMul(x, y) ==
    LET g1 == GCD(Abs(x.n), y.d)
        g2 == GCD(Abs(y.n), x.d)
        a == IF g1 = 0 THEN 1 ELSE g1
        b == IF g2 = 0 THEN 1 ELSE g2
    IN  Rat((x.n \div a) * (y.n \div b), (x.d \div b) * (y.d \div a))

RDiv(x, y) == RMul(x, Rat(y.d, y.n))

RSign(x) == IF x.n > 0 THEN 1 ELSE IF x.n < 0 THEN -1 ELSE 0

RAbs(x) == [n |-> Abs(x.n), d |-> x.d]

RLeq(x, y) == x.n * y.d <= y.n * x.d

Range(s) == {s[i] : i \in DOMAIN s}

SeqsUpTo(S, n) == UNION {[1..k -> S] : k \in 0..n}

----------------------------------------------------------------------------
(* Bounds                                                                  *)

MaxIdx == 3

MaxSeries == 3

(* time_step values: 1, 1/2 and 2/5 (0.4, which does not divide a year)    *)
TimeSteps == {Rat(1, 1), Rat(1, 2), Rat(2, 5)}

EmissVals == {-1, 0, 1}

ArtpVals == {-1, 1, 2}

----------------------------------------------------------------------------
(* scenarios/temperature_scenarios.py: compute_time_step_temperature       *)
(* Python indexes from 0, sequences here from 1: emissions[i] of the code  *)
(* is emissions[i + 1].                                                    *)

RECURSIVE conv_sum_rectangle(_, _, _, _, _)
conv_sum_rectangle(i, index, emissions, artp, time_step) ==
    IF i >= index THEN RZero
    ELSE RAdd(RMul(emissions[i + 1], RMul(time_step, artp[index - i + 1])),
              conv_sum_rectangle(i + 1, index, emissions, artp, time_step))

RECURSIVE conv_sum(_, _, _, _, _)
conv_sum(i, index, emissions, artp, time_step) ==
    IF i >= index THEN RZero
    ELSE RAdd(RMul(emissions[i + 1],
                   RDiv(RMul(time_step,
                             RAdd(artp[index - i + 1], artp[index - i])),
                        RInt(2))),
              conv_sum(i + 1, index, emissions, artp, time_step))

compute_time_step_temperature_nohalf(index, emissions, artp, time_step) ==
    IF index = 0
    THEN RMul(emissions[1], RMul(time_step, artp[1]))
    ELSE conv_sum(0, index, emissions, artp, time_step)

compute_time_step_temperature(index, emissions, artp, time_step) ==
    IF index = 0
    THEN RMul(emissions[1], RDiv(RMul(time_step, artp[1]), RInt(2)))
    ELSE conv_sum(0, index, emissions, artp, time_step)

(* The subscripts the call reads exist (otherwise Python raises IndexError) *)
subscripts_exist(index, emissions, artp) ==
    IF index = 0
    THEN Len(emissions) >= 1 /\ Len(artp) >= 1
    ELSE Len(emissions) >= index /\ Len(artp) >= index + 1

RatSeq(s) == [i \in DOMAIN s |-> RInt(s[i])]

ConvIdle == [pc |-> "idle"]

MixIdle == [pc |-> "idle"]

SingleIdle == [pc |-> "idle"]

PotIdle == [pc |-> "idle"]

StatIdle == [pc |-> "idle"]

UncIdle == [pc |-> "idle"]

EffIdle == [pc |-> "idle"]

MaskIdle == [pc |-> "idle"]

ErfIdle == [pc |-> "idle"]

DrvIdle == [pc |-> "idle"]

SelIdle == [pc |-> "idle"]

(* The calls a specification is not about stay idle                         *)
OthersIdle ==
    /\ eff = EffIdle
    /\ mask = MaskIdle
    /\ erfu = ErfIdle
    /\ drv = DrvIdle
    /\ sel = SelIdle

InitConv ==
    /\ OthersIdle
    /\ \E index \in 0..MaxIdx, ts \in TimeSteps,
          e \in SeqsUpTo(EmissVals, MaxSeries), a \in SeqsUpTo(ArtpVals, MaxSeries) :
          conv = [pc |-> "call", index |-> index, emissions |-> RatSeq(e),
                  artp |-> RatSeq(a), time_step |-> ts, result |-> RZero]
    /\ mix = MixIdle
    /\ single = SingleIdle
    /\ pot = PotIdle
    /\ stat = StatIdle
    /\ unc = UncIdle

ConvReturn ==
    /\ conv.pc = "call"
    /\ subscripts_exist(conv.index, conv.emissions, conv.artp)
    /\ conv' = [conv EXCEPT !.pc = "done",
                   !.result = compute_time_step_temperature(
                       conv.index, conv.emissions, conv.artp, conv.time_step)]
    /\ UNCHANGED <<mix, single, pot, stat, unc, eff, mask, erfu, drv, sel>>

ConvIndexError ==
    /\ conv.pc = "call"
    /\ ~subscripts_exist(conv.index, conv.emissions, conv.artp)
    /\ conv' = [conv EXCEPT !.pc = "IndexError"]
    /\ UNCHANGED <<mix, single, pot, stat, unc, eff, mask, erfu, drv, sel>>

NextConv == ConvReturn \/ ConvIndexError

SpecConv == InitConv /\ [][NextConv]_vars

----------------------------------------------------------------------------
(* C1: compute_time_step_temperature returns, for index > 0, the sum over  *)
(* i = 0..index-1 of emissions[i] * time_step * (artp[index-i] +           *)
(* artp[index-i-1]) / 2, and for index = 0 emissions[0] * time_step *      *)
(* artp[0] / 2; with artp constantly 1, time_step 1 and emissions          *)
(* [1,0,0,...] it returns 1/2 at index 0 and 1 at index 1.                 *)

RECURSIVE TrapezoidNumerator(_, _, _, _)
TrapezoidNumerator(i, index, emissions, artp) ==
    IF i < 0 THEN RZero
    ELSE RAdd(TrapezoidNumerator(i - 1, index, emissions, artp),
              RMul(emissions[i + 1], RAdd(artp[index - i + 1], artp[index - i])))

TrapezoidValue(index, emissions, artp, time_step) ==
    IF index = 0
    THEN RDiv(RMul(RMul(emissions[1], artp[1]), time_step), RInt(2))
    ELSE RDiv(RMul(time_step, TrapezoidNumerator(index - 1, index, emissions, artp)),
              RInt(2))

UnitPulseCase ==
    /\ conv.time_step = RInt(1)
    /\ Len(conv.emissions) >= 1
    /\ conv.emissions[1] = RInt(1)
    /\ \A i \in 2..Len(conv.emissions) : conv.emissions[i] = RZero
    /\ \A i \in DOMAIN conv.artp : conv.artp[i] = RInt(1)

C1_Trapezoid ==
    conv.pc = "done" =>
        /\ conv.result = TrapezoidValue(conv.index, conv.emissions, conv.artp, conv.time_step)
        /\ (UnitPulseCase /\ conv.index = 0) => conv.result = Rat(1, 2)
        /\ (UnitPulseCase /\ conv.index = 1) => conv.result = RInt(1)

C1_Witness ==
    /\ conv.pc = "done"
    /\ UnitPulseCase
    /\ conv.index = 1
    /\ Len(conv.emissions) = 3
    /\ conv.result = RInt(1)

----------------------------------------------------------------------------
(* utils/constants.py and the tables the scenario code reads                *)

POLLUTANTS == {"SO2", "BC", "CO2", "CH4"}

(* The scenario types compute_mixed_scenarios_temperature accepts           *)
SCENARIOS == {"linear", "sustained", "quadratic"}

A0 == Rat(217, 1000)

Ai == <<Rat(259, 1000), Rat(338, 1000), Rat(186, 1000)>>

CO2_tau == <<Rat(1729, 10), Rat(1851, 100), Rat(1186, 1000)>>

(* Inputs of the scenario functions                                         *)
MaxTh == 3

Horizons == 1..MaxTh

(* Lists of one or two segment end times, increasing or not                 *)
HorizonLists ==
    {<<a>> : a \in Horizons} \cup {<<a, b>> : a \in {1, 2}, b \in Horizons}

(* Increasing lists of three segment end times                              *)
HorizonLists3 == {<<1, 2, c>> : c \in 3..MaxTh}

SegmentCounts == {1, 2}

ShapeNames == SCENARIOS \cup {"sin"}

Magnitudes == {0, 100, 150}

(* load_emissions reads the emission mass from data files: any of these     *)
EmissMasses == {-1, 2}

SeqsOfLen(S, K) == UNION {[1..k -> S] : k \in K}

Increasing(s) == \A i \in 2..Len(s) : s[i - 1] < s[i]

(* artp series of a given length: constant, decaying, growing, sign-changing *)
ArtpFamily(len) ==
    { [i \in 1..len |-> RInt(1)],
      [i \in 1..len |-> RInt(len + 1 - i)],
      [i \in 1..len |-> RInt(-i)],
      [i \in 1..len |-> RInt(IF i % 2 = 1 THEN 2 ELSE -1)] }

----------------------------------------------------------------------------
(* scenarios/temperature_scenarios.py: compute_mixed_scenarios_temperature  *)

SeqMax(s) == CHOOSE m \in Range(s) : \A x \in Range(s) : x <= m

(* int(1 / time_step), truncating                                           *)
n_steps_of(time_step) == time_step.d \div time_step.n

total_steps(time_horizons, time_step) == SeqMax(time_horizons) * n_steps_of(time_step)

sign_of_unsigned(pollutant) == 1

(* Lines 141-144 *)
sign_of(pollutant) == IF pollutant = "SO2" THEN -1 ELSE 1

(* Lines 146-156; i is the 0-based segment index of the code                *)
tot_delta_emiss_mass(pollutant, delta_emiss_mass, time_horizons, i) ==
    IF pollutant = "CO2"
    THEN LET dth_i == IF i > 0 THEN time_horizons[i + 1] - time_horizons[i]
                      ELSE time_horizons[i + 1]
             atau(j) == IF RLeq(CO2_tau[j], RInt(dth_i)) /\ CO2_tau[j] # RInt(dth_i)
                        THEN CO2_tau[j] ELSE RInt(dth_i)
             total == RAdd(RMul(A0, RInt(time_horizons[1])),
                           RAdd(RMul(Ai[1], atau(1)),
                                RAdd(RMul(Ai[2], atau(2)), RMul(Ai[3], atau(3)))))
         IN  RDiv(RInt(delta_emiss_mass), total)
    ELSE RInt(delta_emiss_mass)

(* Lines 158-165: the offset and the increment of segment i                 *)
prev_scen_emiss(pollutant, delta_emiss_mass, magnitudes, time_horizons, i) ==
    IF i = 0 THEN RZero
    ELSE RDiv(RMul(RMul(RInt(sign_of(pollutant)),
                        tot_delta_emiss_mass(pollutant, delta_emiss_mass, time_horizons, i)),
                   RInt(magnitudes[i] - 100)),
              RInt(100))

scen_emiss(pollutant, delta_emiss_mass, magnitudes, time_horizons, i) ==
    LET dm == IF i = 0 THEN magnitudes[1] - 100 ELSE magnitudes[i + 1] - magnitudes[i]
    IN  RDiv(RMul(RMul(RInt(sign_of(pollutant)),
                       tot_delta_emiss_mass(pollutant, delta_emiss_mass, time_horizons, i)),
                  RInt(dm)),
             RInt(100))

(* Lines 167-177: the fraction of the increment applied at step t           *)
ramp_from_zero(shape, t, prev_th, curr_th) ==
    LET x == Rat(t - prev_th, curr_th - prev_th)
    IN  IF shape = "linear" THEN x
        ELSE IF shape = "quadratic" THEN RMul(x, x)
        ELSE RInt(1)

ramp(shape, t, prev_th, curr_th) ==
    LET x == Rat(t - prev_th + 1, curr_th - prev_th)
    IN  IF shape = "linear" THEN x
        ELSE IF shape = "quadratic" THEN RMul(x, x)
        ELSE RInt(1)

(* One pass of the loop at line 137 over segment i, writing into emiss;     *)
(* a shape that is none of the three writes nothing                         *)
segment_emiss(emiss, pollutant, delta_emiss_mass, magnitudes, emiss_scenarios, time_horizons, n_steps, i) ==
    LET curr_th == time_horizons[i + 1] * n_steps
        prev_th == IF i = 0 THEN 0 ELSE time_horizons[i] * n_steps
        prev == prev_scen_emiss(pollutant, delta_emiss_mass, magnitudes, time_horizons, i)
        incr == scen_emiss(pollutant, delta_emiss_mass, magnitudes, time_horizons, i)
    IN  [t1 \in DOMAIN emiss |->
            IF /\ prev_th <= t1 - 1
               /\ t1 - 1 < curr_th
               /\ emiss_scenarios[i + 1] \in {"linear", "sustained", "quadratic"}
            THEN RAdd(prev, RMul(incr, ramp(emiss_scenarios[i + 1], t1 - 1, prev_th, curr_th)))
            ELSE emiss[t1]]

RECURSIVE mixed_scen_emiss_from(_, _, _, _, _, _, _, _)
mixed_scen_emiss_from(emiss, pollutant, delta_emiss_mass, magnitudes, emiss_scenarios, time_horizons, n_steps, i) ==
    IF i >= Len(emiss_scenarios) THEN emiss
    ELSE mixed_scen_emiss_from(
             segment_emiss(emiss, pollutant, delta_emiss_mass, magnitudes,
                           emiss_scenarios, time_horizons, n_steps, i),
             pollutant, delta_emiss_mass, magnitudes, emiss_scenarios,
             time_horizons, n_steps, i + 1)

(* Lines 135-177                                                            *)
mixed_scen_emiss(pollutant, delta_emiss_mass, magnitudes, emiss_scenarios, time_horizons, time_step) ==
    mixed_scen_emiss_from(
        [t1 \in 1..total_steps(time_horizons, time_step) |-> RZero],
        pollutant, delta_emiss_mass, magnitudes, emiss_scenarios, time_horizons,
        n_steps_of(time_step), 0)

(* Lines 179-183                                                            *)
mixed_scenario_temperature(emiss, artp, time_step) ==
    [t1 \in DOMAIN emiss |->
        compute_time_step_temperature(t1 - 1, emiss, artp, time_step)]

(* The artp series a caller may pass: every series of the family at the    *)
(* length the code asks for, and a constant series at two other lengths,    *)
(* max(time_horizons) / time_step rounded down and one step more            *)
ArtpInputs(time_horizons, time_step) ==
    LET max_th == SeqMax(time_horizons)
        asked == max_th * n_steps_of(time_step)
    IN  ArtpFamily(asked) \cup
        { [i \in 1..len |-> RInt(1)] :
             len \in {(max_th * time_step.d) \div time_step.n, asked + 1} }

(* For CO2 every segment divides the mass by its own sum(aai * atau); the    *)
(* sums of two segments have six-digit coprime denominators, and a response *)
(* that adds both no longer fits the integers of the model checker.  CO2    *)
(* scenarios therefore start with a one-year segment, whose sum is exactly 1 *)
InputsRepresentable(pollutant, time_horizons) ==
    pollutant = "CO2" => time_horizons[1] = 1

MixedInputs(pollutant, magnitudes, emiss_scenarios, time_horizons, artp, time_step) ==
    [pc |-> "call", pollutant |-> pollutant, magnitudes |-> magnitudes,
     emiss_scenarios |-> emiss_scenarios, time_horizons |-> time_horizons,
     artp |-> artp, time_step |-> time_step, loads |-> 0, delta_emiss_mass |-> 0,
     emiss |-> <<>>, temperature |-> <<>>, error |-> "none"]

(* Calls with one or two segments: any end times (increasing or not), any   *)
(* shape names, one or two shapes whatever the number of end times          *)
MixedCall ==
    \E pollutant \in POLLUTANTS, time_step \in TimeSteps,
       time_horizons \in HorizonLists,
       emiss_scenarios \in SeqsOfLen(ShapeNames, SegmentCounts) :
       \E magnitudes \in [1..Len(emiss_scenarios) -> Magnitudes],
          artp \in ArtpInputs(time_horizons, time_step) :
             /\ InputsRepresentable(pollutant, time_horizons)
             /\ mix = MixedInputs(pollutant, magnitudes, emiss_scenarios,
                                  time_horizons, artp, time_step)

(* Well-formed calls with three segments                                    *)
MixedCall3 ==
    \E pollutant \in POLLUTANTS, time_step \in TimeSteps,
       time_horizons \in HorizonLists3,
       emiss_scenarios \in [1..3 -> SCENARIOS],
       magnitudes \in {<<150, 150, 100>>, <<0, 150, 0>>} :
       \E artp \in ArtpFamily(total_steps(time_horizons, time_step)) :
             /\ InputsRepresentable(pollutant, time_horizons)
             /\ mix = MixedInputs(pollutant, magnitudes, emiss_scenarios,
                                  time_horizons, artp, time_step)

counts_match == Len(mix.emiss_scenarios) = Len(mix.time_horizons)

scenarios_unchecked == TRUE

scenarios_valid == \A i \in DOMAIN mix.emiss_scenarios : mix.emiss_scenarios[i] \in SCENARIOS

artp_length_matches == total_steps(mix.time_horizons, mix.time_step) = Len(mix.artp)

(* Line 109 *)
MixedAssertCounts ==
    /\ mix.pc = "call"
    /\ ~counts_match
    /\ mix' = [mix EXCEPT !.pc = "AssertionError", !.error = "counts"]
    /\ UNCHANGED <<conv, single, pot, stat, unc, eff, mask, erfu, drv, sel>>

(* Lines 114-115 *)
MixedAssertScenario ==
    /\ mix.pc = "call"
    /\ counts_match
    /\ ~scenarios_valid
    /\ mix' = [mix EXCEPT !.pc = "AssertionError", !.error = "scenario"]
    /\ UNCHANGED <<conv, single, pot, stat, unc, eff, mask, erfu, drv, sel>>

(* Lines 117-129 *)
MixedAssertArtp ==
    /\ mix.pc = "call"
    /\ counts_match
    /\ scenarios_valid
    /\ ~artp_length_matches
    /\ mix' = [mix EXCEPT !.pc = "AssertionError", !.error = "artp"]
    /\ UNCHANGED <<conv, single, pot, stat, unc, eff, mask, erfu, drv, sel>>

MixedChecked ==
    /\ mix.pc = "call"
    /\ counts_match
    /\ scenarios_valid
    /\ artp_length_matches
    /\ mix' = [mix EXCEPT !.pc = "checked"]
    /\ UNCHANGED <<conv, single, pot, stat, unc, eff, mask, erfu, drv, sel>>

(* Line 132 *)
MixedLoadEmissions ==
    /\ mix.pc = "checked"
    /\ \E m \in EmissMasses :
          mix' = [mix EXCEPT !.pc = "loaded", !.loads = @ + 1, !.delta_emiss_mass = m]
    /\ UNCHANGED <<conv, single, pot, stat, unc, eff, mask, erfu, drv, sel>>

(* Lines 135-177 *)
MixedBuildEmissions ==
    /\ mix.pc = "loaded"
    /\ mix' = [mix EXCEPT !.pc = "built",
                  !.emiss = mixed_scen_emiss(mix.pollutant, mix.delta_emiss_mass,
                                mix.magnitudes, mix.emiss_scenarios,
                                mix.time_horizons, mix.time_step)]
    /\ UNCHANGED <<conv, single, pot, stat, unc, eff, mask, erfu, drv, sel>>

(* Lines 179-183 *)
MixedReturn ==
    /\ mix.pc = "built"
    /\ mix' = [mix EXCEPT !.pc = "done",
                  !.temperature = mixed_scenario_temperature(mix.emiss, mix.artp, mix.time_step)]
    /\ UNCHANGED <<conv, single, pot, stat, unc, eff, mask, erfu, drv, sel>>

NextMixed ==
    \/ MixedAssertCounts
    \/ MixedAssertScenario
    \/ MixedAssertArtp
    \/ MixedChecked
    \/ MixedLoadEmissions
    \/ MixedBuildEmissions
    \/ MixedReturn

----------------------------------------------------------------------------
(* scenarios/temperature_scenarios.py: compute_scenarios_temperature        *)

(* np.linspace(start, stop, num)[k], k = 0..num-1                           *)
linspace(start, stop, num, k) ==
    IF num = 1 THEN start
    ELSE RAdd(start, RDiv(RMul(RInt(k), RAdd(stop, RNeg(start))), RInt(num - 1)))

(* Lines 199-203 *)
scaled_delta_emiss_mass_unsigned(pollutant, delta_emiss_mass, magnitude) ==
    RDiv(RInt(delta_emiss_mass * (magnitude - 100)), RInt(100))

scaled_delta_emiss_mass(pollutant, delta_emiss_mass, magnitude) ==
    IF pollutant = "SO2"
    THEN RDiv(RInt(delta_emiss_mass * (100 - magnitude)), RInt(100))
    ELSE RDiv(RInt(delta_emiss_mass * (magnitude - 100)), RInt(100))

(* (t + 1) / time_horizon at the k-th grid time, lines 209-212              *)
scen_fraction(time_horizon, time_step, k) ==
    LET num == time_horizon * n_steps_of(time_step)
        t == linspace(time_step, RInt(time_horizon), num, k)
    IN  RDiv(RAdd(t, RInt(1)), RInt(time_horizon))

(* np.sin is transcendental: sin_pi[k] stands for                           *)
(* np.sin(np.pi * ((t + 1) / time_horizon)) at the k-th grid time and is    *)
(* drawn from these tables                                                  *)
SinTables(len) ==
    { [i \in 1..len |-> Rat(1, 2)],
      [i \in 1..len |-> RInt(IF i % 2 = 1 THEN -1 ELSE 0)] }

(* Lines 205-213 *)
scen_emiss_lists(pollutant, delta_emiss_mass, magnitude, time_horizon, time_step, sin_pi) ==
    LET num == time_horizon * n_steps_of(time_step)
        scaled == scaled_delta_emiss_mass(pollutant, delta_emiss_mass, magnitude)
        x(k) == scen_fraction(time_horizon, time_step, k)
    IN  [linear    |-> [i \in 1..num |-> RMul(scaled, x(i - 1))],
         quadratic |-> [i \in 1..num |-> RMul(scaled, RMul(x(i - 1), x(i - 1)))],
         sin       |-> [i \in 1..num |-> RMul(scaled, sin_pi[i])],
         sustained |-> [i \in 1..num |-> scaled]]

(* Lines 215-227 *)
scen_temperature(emiss, artp, time_step) ==
    [linear    |-> mixed_scenario_temperature(emiss.linear, artp, time_step),
     quadratic |-> mixed_scenario_temperature(emiss.quadratic, artp, time_step),
     sin       |-> mixed_scenario_temperature(emiss.sin, artp, time_step),
     sustained |-> mixed_scenario_temperature(emiss.sustained, artp, time_step),
     mixed     |-> [i \in DOMAIN artp |-> RZero]]

ScenCall ==
    \E pollutant \in POLLUTANTS, time_step \in TimeSteps,
       time_horizon \in Horizons, magnitude \in Magnitudes :
       \E artp \in ArtpInputs(<<time_horizon>>, time_step) :
             single = [pc |-> "call", pollutant |-> pollutant, magnitude |-> magnitude,
                     time_horizon |-> time_horizon, artp |-> artp,
                     time_step |-> time_step, loads |-> 0, delta_emiss_mass |-> 0,
                     sin_pi |-> <<>>, emiss |-> <<>>, temperature |-> <<>>,
                     error |-> "none"]

scen_artp_length_matches ==
    single.time_horizon * n_steps_of(single.time_step) = Len(single.artp)

(* Lines 188-194 *)
ScenAssertArtp ==
    /\ single.pc = "call"
    /\ ~scen_artp_length_matches
    /\ single' = [single EXCEPT !.pc = "AssertionError", !.error = "artp"]
    /\ UNCHANGED <<conv, mix, pot, stat, unc, eff, mask, erfu, drv, sel>>

ScenChecked ==
    /\ single.pc = "call"
    /\ scen_artp_length_matches
    /\ single' = [single EXCEPT !.pc = "checked"]
    /\ UNCHANGED <<conv, mix, pot, stat, unc, eff, mask, erfu, drv, sel>>

(* Line 197 *)
ScenLoadEmissions ==
    /\ single.pc = "checked"
    /\ \E m \in EmissMasses :
          single' = [single EXCEPT !.pc = "loaded", !.loads = @ + 1, !.delta_emiss_mass = m]
    /\ UNCHANGED <<conv, mix, pot, stat, unc, eff, mask, erfu, drv, sel>>

(* Lines 199-213 *)
ScenBuildEmissions ==
    /\ single.pc = "loaded"
    /\ \E sin_pi \in SinTables(Len(single.artp)) :
          single' = [single EXCEPT !.pc = "built", !.sin_pi = sin_pi,
                       !.emiss = scen_emiss_lists(single.pollutant, single.delta_emiss_mass,
                                     single.magnitude, single.time_horizon,
                                     single.time_step, sin_pi)]
    /\ UNCHANGED <<conv, mix, pot, stat, unc, eff, mask, erfu, drv, sel>>

(* Lines 215-227 *)
ScenReturn ==
    /\ single.pc = "built"
    /\ single' = [single EXCEPT !.pc = "done",
                   !.temperature = scen_temperature(single.emiss, single.artp, single.time_step)]
    /\ UNCHANGED <<conv, mix, pot, stat, unc, eff, mask, erfu, drv, sel>>

NextScen ==
    \/ ScenAssertArtp
    \/ ScenChecked
    \/ ScenLoadEmissions
    \/ ScenBuildEmissions
    \/ ScenReturn

InitScenarios ==
    /\ OthersIdle
    /\ conv = ConvIdle
    /\ pot = PotIdle
    /\ stat = StatIdle
    /\ unc = UncIdle
    /\ \/ MixedCall /\ single = SingleIdle
       \/ MixedCall3 /\ single = SingleIdle
       \/ ScenCall /\ mix = MixIdle

NextScenarios == NextMixed \/ NextScen

SpecScenarios == InitScenarios /\ [][NextScenarios]_vars

----------------------------------------------------------------------------
(* metrics/slp.py and metrics/co2.py: the potential engine                  *)

(* The single-lifetime pollutants slp.compute_atp accepts                   *)
SLP == {"SO2", "BC", "CH4"}

C1 == Rat(631, 1000)

C2 == Rat(429, 1000)

CF == Rat(34, 1000)

SPECS_k(pollutant) ==
    CASE pollutant = "SO2" -> Rat(2678, 1000)
      [] pollutant = "BC"  -> Rat(2675, 1000)
      [] pollutant = "CO2" -> Rat(2470, 1000)
      [] pollutant = "CH4" -> Rat(2766, 1000)

SPECS_fp(pollutant) == IF pollutant = "SO2" THEN Rat(-4, 10) ELSE RInt(1)

(* The smallest time horizon the single-lifetime functions accept           *)
MinTh == 5

MaxPotTh == 6

(* Time horizons in half years, 0 .. MaxPotTh                               *)
ThValues == {Rat(h, 2) : h \in 0..(2 * MaxPotTh)}

(* np.exp is transcendental.  The factors of the closed forms that contain  *)
(* it are drawn from these tables; for a pollutant with lifetime tau (for   *)
(* CO2: with the decay a0 + sum ai exp(-t/tau_i)) and box j they stand for  *)
(*   kI[j]  tau / (tau - D[j]) * (tau (1 - exp(-th/tau)) - D[j] (1 - exp(-th/D[j]))) *)
(*   kP[j]  tau / (tau - D[j]) * (exp(-th/tau) - exp(-th/D[j]))             *)
(*   dI     tau * (1 - exp(-th/tau))                                        *)
(*   dP     exp(-th/tau)                                                    *)
Kernels ==
    { [kI |-> <<RInt(1), RInt(2)>>,  kP |-> <<RInt(-1), RInt(1)>>, dI |-> RInt(1), dP |-> Rat(1, 2)],
      [kI |-> <<RInt(3), RInt(-1)>>, kP |-> <<RInt(2), RInt(0)>>,  dI |-> RInt(2), dP |-> RInt(1)],
      [kI |-> <<RInt(0), RInt(0)>>,  kP |-> <<RInt(1), RInt(1)>>,  dI |-> RInt(0), dP |-> RInt(0)] }

get_unscaled_climate_sensitivity(c_scaling) == <<C1, C2>>

(* simulations/variables.py: get_scaled_climate_sensitivity; c_scaling is   *)
(* the multi-model factor scaling.get_mm_scaling(pollutant, ...)[2]         *)
get_scaled_climate_sensitivity(c_scaling) ==
    <<RMul(C1, c_scaling), RMul(C2, c_scaling)>>

(* slp.compute_atp lines 53-63 and co2.compute_atp lines 44-68              *)
compute_atp(rad_eff, c_scaling, kernel) ==
    LET c_scaled == get_scaled_climate_sensitivity(c_scaling)
    IN  [iatp |-> RAdd(RMul(RMul(rad_eff, c_scaled[1]), kernel.kI[1]),
                       RMul(RMul(rad_eff, c_scaled[2]), kernel.kI[2])),
         atp  |-> RAdd(RMul(RMul(rad_eff, c_scaled[1]), kernel.kP[1]),
                       RMul(RMul(rad_eff, c_scaled[2]), kernel.kP[2]))]

app_total_plus(pollutant, agtp, rad_eff_a, decay, rr_precip_avg, precip_avg) ==
    RMul(RMul(CF, RAdd(RMul(SPECS_k(pollutant), agtp),
                       RMul(RMul(SPECS_fp(pollutant), rad_eff_a), decay))),
         RDiv(rr_precip_avg, precip_avg))

(* Cf * (k * agtp - fp * rad_eff_a * decay) * (rr_precip_avg / precip_avg): *)
(* slp.compute_app lines 128 and 137, co2.compute_app lines 118 and 131     *)
app_total(pollutant, agtp, rad_eff_a, decay, rr_precip_avg, precip_avg) ==
    RMul(RMul(CF, RAdd(RMul(SPECS_k(pollutant), agtp),
                       RNeg(RMul(RMul(SPECS_fp(pollutant), rad_eff_a), decay)))),
         RDiv(rr_precip_avg, precip_avg))

(* Cf * k * agtp * (rr_precip_avg / precip_avg): lines 131 and 140          *)
app_slow(pollutant, agtp, rr_precip_avg, precip_avg) ==
    RMul(RMul(RMul(CF, SPECS_k(pollutant)), agtp), RDiv(rr_precip_avg, precip_avg))

(* Cf * -fp * rad_eff_a * decay * (rr_precip_avg / precip_avg): 134 and 143 *)
app_fast(pollutant, rad_eff_a, decay, rr_precip_avg, precip_avg) ==
    RMul(RMul(RMul(RMul(CF, RNeg(SPECS_fp(pollutant))), rad_eff_a), decay),
         RDiv(rr_precip_avg, precip_avg))

compute_app_coupled(pollutant, rad_eff, rad_eff_a, c_scaling, kernel, rr_precip_avg, precip_avg) ==
    LET gtp == compute_atp(rad_eff, c_scaling, kernel)
    IN  [iarpp      |-> app_total(pollutant, gtp.iatp, rad_eff, kernel.dI,
                                  rr_precip_avg, precip_avg),
         slow_iarpp |-> app_slow(pollutant, gtp.iatp, rr_precip_avg, precip_avg),
         fast_iarpp |-> app_fast(pollutant, rad_eff, kernel.dI, rr_precip_avg, precip_avg),
         arpp       |-> app_total(pollutant, gtp.atp, rad_eff, kernel.dP,
                                  rr_precip_avg, precip_avg),
         slow_arpp  |-> app_slow(pollutant, gtp.atp, rr_precip_avg, precip_avg),
         fast_arpp  |-> app_fast(pollutant, rad_eff, kernel.dP, rr_precip_avg, precip_avg)]

(* slp.compute_app lines 124-145, co2.compute_app lines 114-143             *)
compute_app(pollutant, rad_eff, rad_eff_a, c_scaling, kernel, rr_precip_avg, precip_avg) ==
    LET gtp == compute_atp(rad_eff, c_scaling, kernel)
    IN  [iarpp      |-> app_total(pollutant, gtp.iatp, rad_eff_a, kernel.dI,
                                  rr_precip_avg, precip_avg),
         slow_iarpp |-> app_slow(pollutant, gtp.iatp, rr_precip_avg, precip_avg),
         fast_iarpp |-> app_fast(pollutant, rad_eff_a, kernel.dI, rr_precip_avg, precip_avg),
         arpp       |-> app_total(pollutant, gtp.atp, rad_eff_a, kernel.dP,
                                  rr_precip_avg, precip_avg),
         slow_arpp  |-> app_slow(pollutant, gtp.atp, rr_precip_avg, precip_avg),
         fast_arpp  |-> app_fast(pollutant, rad_eff_a, kernel.dP, rr_precip_avg, precip_avg)]

RadEffs == {RInt(-1), RInt(2)}

PrecipAvgs == {RInt(-2), RZero, RInt(3)}

RegionalPrecipAvgs == {RInt(-1), RInt(3)}

CScalings == {RInt(1), RInt(2)}

(* A call of module.fn; co2.* take no pollutant argument                    *)
InitPotentials ==
    /\ OthersIdle
    /\ conv = ConvIdle
    /\ mix = MixIdle
    /\ single = SingleIdle
    /\ stat = StatIdle
    /\ unc = UncIdle
    /\ \E module \in {"slp", "co2"}, fn \in {"compute_atp", "compute_app"},
          pollutant \in POLLUTANTS, th \in ThValues, kernel \in Kernels,
          rad_eff \in RadEffs, rad_eff_a \in RadEffs, c_scaling \in CScalings,
          rr_precip_avg \in RegionalPrecipAvgs, precip_avg \in PrecipAvgs :
          /\ module = "co2" => pollutant = "CO2"
          /\ fn = "compute_atp" =>
                /\ rad_eff_a = RInt(2)
                /\ rr_precip_avg = RInt(3)
                /\ precip_avg = RInt(3)
          /\ pot = [pc |-> "call", module |-> module, fn |-> fn,
                    pollutant |-> pollutant, th |-> th, kernel |-> kernel,
                    rad_eff |-> rad_eff, rad_eff_a |-> rad_eff_a,
                    c_scaling |-> c_scaling, rr_precip_avg |-> rr_precip_avg,
                    precip_avg |-> precip_avg, error |-> "none", result |-> <<>>]

th_too_small_strict(th) == RLeq(th, RInt(MinTh))

(* assert th >= 5 fails: slp.py lines 42 and 116                            *)
th_too_small(th) == ~RLeq(RInt(MinTh), th)

SlpAssertTh ==
    /\ pot.pc = "call"
    /\ pot.module = "slp"
    /\ th_too_small(pot.th)
    /\ pot' = [pot EXCEPT !.pc = "AssertionError", !.error = "th"]
    /\ UNCHANGED <<conv, mix, single, stat, unc, eff, mask, erfu, drv, sel>>

(* assert pollutant in constants.SLP fails: slp.py lines 43 and 117         *)
SlpAssertPollutant ==
    /\ pot.pc = "call"
    /\ pot.module = "slp"
    /\ ~th_too_small(pot.th)
    /\ pot.pollutant \notin SLP
    /\ pot' = [pot EXCEPT !.pc = "AssertionError", !.error = "pollutant"]
    /\ UNCHANGED <<conv, mix, single, stat, unc, eff, mask, erfu, drv, sel>>

Accepted ==
    pot.module = "slp" => (~th_too_small(pot.th) /\ pot.pollutant \in SLP)

ComputeAtpReturn ==
    /\ pot.pc = "call"
    /\ pot.fn = "compute_atp"
    /\ Accepted
    /\ pot' = [pot EXCEPT !.pc = "done",
                  !.result = compute_atp(pot.rad_eff, pot.c_scaling, pot.kernel)]
    /\ UNCHANGED <<conv, mix, single, stat, unc, eff, mask, erfu, drv, sel>>

ComputeAppReturn ==
    /\ pot.pc = "call"
    /\ pot.fn = "compute_app"
    /\ Accepted
    /\ pot.precip_avg # RZero
    /\ pot' = [pot EXCEPT !.pc = "done",
                  !.result = compute_app(pot.pollutant, pot.rad_eff, pot.rad_eff_a,
                                 pot.c_scaling, pot.kernel, pot.rr_precip_avg,
                                 pot.precip_avg)]
    /\ UNCHANGED <<conv, mix, single, stat, unc, eff, mask, erfu, drv, sel>>

(* rr_precip_avg / precip_avg with precip_avg = 0: the floating-point       *)
(* quotient is inf or nan and so is every value returned                    *)
ComputeAppNonFinite ==
    /\ pot.pc = "call"
    /\ pot.fn = "compute_app"
    /\ Accepted
    /\ pot.precip_avg = RZero
    /\ pot' = [pot EXCEPT !.pc = "done", !.error = "non-finite"]
    /\ UNCHANGED <<conv, mix, single, stat, unc, eff, mask, erfu, drv, sel>>

NextPotentials ==
    \/ SlpAssertTh
    \/ SlpAssertPollutant
    \/ ComputeAtpReturn
    \/ ComputeAppReturn
    \/ ComputeAppNonFinite

SpecPotentials == InitPotentials /\ [][NextPotentials]_vars

----------------------------------------------------------------------------
(* slp.compute_atp with the keyword flags c_scaling and erf_scaling that    *)
(* so2_scaling_impact.py passes (lines 58-84).  A flag is "omitted", True   *)
(* or False; an omitted flag takes its default, True.  With c_scaling       *)
(* disabled the climate sensitivity is [C1, C2]; with erf_scaling disabled  *)
(* the multi-model forcing scaling rf_scaling is taken out of rad_eff.      *)

FlagValues == {"omitted", "True", "False"}

flag_value(flag) == flag # "False"

RfScalings == {RInt(1), RInt(2)}

compute_atp_scalings(rad_eff, c_factor, rf_factor, kernel, c_scaling, erf_scaling) ==
    compute_atp(IF flag_value(erf_scaling) THEN rad_eff ELSE RDiv(rad_eff, rf_factor),
                IF flag_value(c_scaling) THEN c_factor ELSE RInt(1),
                kernel)

(* One of the calls of the loop body of so2_scaling_impact.py               *)
InitScaling ==
    /\ OthersIdle
    /\ conv = ConvIdle
    /\ mix = MixIdle
    /\ single = SingleIdle
    /\ stat = StatIdle
    /\ unc = UncIdle
    /\ \E pollutant \in POLLUTANTS, th \in ThValues, kernel \in Kernels,
          rad_eff \in RadEffs, c_factor \in CScalings, rf_factor \in RfScalings,
          c_scaling \in FlagValues, erf_scaling \in FlagValues :
          pot = [pc |-> "call", module |-> "slp", fn |-> "compute_atp",
                 pollutant |-> pollutant, th |-> th, kernel |-> kernel,
                 rad_eff |-> rad_eff, c_factor |-> c_factor, rf_factor |-> rf_factor,
                 c_scaling |-> c_scaling, erf_scaling |-> erf_scaling,
                 error |-> "none", result |-> <<>>]

ComputeAtpScalingsReturn ==
    /\ pot.pc = "call"
    /\ Accepted
    /\ pot' = [pot EXCEPT !.pc = "done",
                  !.result = compute_atp_scalings(pot.rad_eff, pot.c_factor, pot.rf_factor,
                                 pot.kernel, pot.c_scaling, pot.erf_scaling)]
    /\ UNCHANGED <<conv, mix, single, stat, unc, eff, mask, erfu, drv, sel>>

NextScaling ==
    \/ SlpAssertTh
    \/ SlpAssertPollutant
    \/ ComputeAtpScalingsReturn

SpecScaling == InitScaling /\ [][NextScaling]_vars

----------------------------------------------------------------------------
(* Floating-point values that are not finite.  A float is a rational        *)
(* [n, d] with d > 0, or one of nan = 0/0, inf = 1/0, -inf = -1/0.  The     *)
(* operators follow IEEE 754 as numpy applies it to float64 scalars:        *)
(* a division by zero gives inf or nan (with a RuntimeWarning), it does not *)
(* raise.  A zero is taken as +0.0.                                         *)

NaN == [n |-> 0, d |-> 0]

Inf == [n |-> 1, d |-> 0]

NInf == [n |-> -1, d |-> 0]

IsNaN(x) == x.d = 0 /\ x.n = 0

IsFinite(x) == x.d # 0

FSign(x) == IF x.n > 0 THEN 1 ELSE IF x.n < 0 THEN -1 ELSE 0

Signed(sgn) == IF sgn < 0 THEN NInf ELSE Inf

FAdd(x, y) ==
    IF IsNaN(x) \/ IsNaN(y) THEN NaN
    ELSE IF ~IsFinite(x) /\ ~IsFinite(y) THEN (IF x = y THEN x ELSE NaN)
    ELSE IF ~IsFinite(x) THEN x
    ELSE IF ~IsFinite(y) THEN y
    ELSE RAdd(x, y)

FSub(x, y) == FAdd(x, [n |-> -y.n, d |-> y.d])

FMul(x, y) ==
    IF IsNaN(x) \/ IsNaN(y) THEN NaN
    ELSE IF ~IsFinite(x) \/ ~IsFinite(y)
         THEN (IF FSign(x) * FSign(y) = 0 THEN NaN ELSE Signed(FSign(x) * FSign(y)))
    ELSE RMul(x, y)

FDiv(x, y) ==
    IF IsNaN(x) \/ IsNaN(y) THEN NaN
    ELSE IF ~IsFinite(x) /\ ~IsFinite(y) THEN NaN
    ELSE IF ~IsFinite(x) THEN Signed(FSign(x) * (IF FSign(y) < 0 THEN -1 ELSE 1))
    ELSE IF ~IsFinite(y) THEN RZero
    ELSE IF y = RZero THEN (IF x = RZero THEN NaN ELSE Signed(FSign(x)))
    ELSE RDiv(x, y)

FSq(x) == FMul(x, x)

FAbs(x) == [n |-> Abs(x.n), d |-> x.d]

(* A real given by its sign and its square: sgn * sqrt(sq).  np.sqrt and    *)
(* every standard deviation return such a value; the code only divides      *)
(* them by floats, multiplies them by floats and squares them.              *)
RootNaN == [sgn |-> 0, sq |-> NaN]

RootOf(x) == IF IsNaN(x) THEN RootNaN ELSE [sgn |-> FSign(x), sq |-> FSq(x)]

RootIsNaN(r) == IsNaN(r.sq)

(* np.sqrt(x): nan for a negative x                                         *)
np_sqrt(x) ==
    IF IsNaN(x) \/ FSign(x) < 0 THEN RootNaN ELSE [sgn |-> FSign(x), sq |-> x]

(* r / y                                                                    *)
root_div(r, y) ==
    LET q == FDiv(r.sq, FSq(y))
    IN  IF IsNaN(q) THEN RootNaN
        ELSE [sgn |-> IF q = RZero THEN 0
                      ELSE r.sgn * (IF FSign(y) < 0 THEN -1 ELSE 1),
              sq  |-> q]

(* y * r                                                                    *)
root_mul(y, r) ==
    LET q == FMul(FSq(y), r.sq)
    IN  IF IsNaN(q) THEN RootNaN ELSE [sgn |-> FSign(y) * r.sgn, sq |-> q]

(* r ** 2                                                                   *)
root_sq(r) == r.sq

----------------------------------------------------------------------------
(* utils/stats.py                                                           *)

(* The entries of a sample that are not nan, in order                       *)
non_missing(variable) == SelectSeq(variable, LAMBDA x : ~IsNaN(x))

RECURSIVE seq_sum(_)
seq_sum(s) == IF s = <<>> THEN RZero ELSE FAdd(Head(s), seq_sum(Tail(s)))

(* np.nanmean: nan for a sample without values                              *)
nanmean(variable) ==
    LET v == non_missing(variable)
    IN  IF Len(v) = 0 THEN NaN ELSE FDiv(seq_sum(v), RInt(Len(v)))

(* Sum of squared deviations from the mean of the values present            *)
sq_dev_sum(v) ==
    LET m == FDiv(seq_sum(v), RInt(Len(v)))
    IN  seq_sum([i \in DOMAIN v |-> FSq(FSub(v[i], m))])

nanstd_population(variable, ddof) ==
    LET v == non_missing(variable)
    IN  IF Len(v) = 0 THEN RootNaN
        ELSE np_sqrt(FDiv(sq_dev_sum(v), RInt(Len(v))))

(* np.nanstd(variable, ddof): nan when no degree of freedom is left         *)
nanstd(variable, ddof) ==
    LET v == non_missing(variable)
    IN  IF Len(v) - ddof <= 0 THEN RootNaN
        ELSE np_sqrt(FDiv(sq_dev_sum(v), RInt(Len(v) - ddof)))

(* np.count_nonzero(~np.isnan(variable))                                    *)
count_non_missing(variable) == Len(non_missing(variable))

(* r / np.sqrt(k)                                                         *)
root_div_sqrt(r, k) ==
    LET q == FDiv(r.sq, RInt(k))
    IN  IF IsNaN(q) THEN RootNaN
        ELSE [sgn |-> IF q = RZero THEN 0 ELSE r.sgn, sq |-> q]

(* Lines 8-12                                                               *)
compute_stats(variable) ==
    LET avg == nanmean(variable)
        std == nanstd(variable, 1)
        std_err == root_div_sqrt(std, count_non_missing(variable))
    IN  [avg |-> avg, std |-> std, std_err |-> std_err]

compute_ratio_std_single_cov(avg_a, avg_b, std_a, std_b, cov) ==
    root_mul(FAbs(FDiv(avg_a, avg_b)),
             np_sqrt(FAdd(FAdd(root_sq(root_div(std_a, avg_a)),
                               root_sq(root_div(std_b, avg_b))),
                          FDiv(cov, FMul(avg_a, avg_b)))))

(* Lines 37-43; std_a and std_b are reals given by sign and square          *)
compute_ratio_std(avg_a, avg_b, std_a, std_b, cov) ==
    root_mul(FAbs(FDiv(avg_a, avg_b)),
             np_sqrt(FAdd(FAdd(root_sq(root_div(std_a, avg_a)),
                               root_sq(root_div(std_b, avg_b))),
                          FDiv(FMul(RInt(2), cov), FMul(avg_a, avg_b)))))

compute_covariance_std(var_a, var_b, std_err) ==
    LET n == Len(var_a)
        mean_a == FDiv(seq_sum(var_a), RInt(n))
        mean_b == FDiv(seq_sum(var_b), RInt(n))
    IN  FDiv(seq_sum([i \in 1..n |->
                         FMul(FSub(var_a[i], mean_a), FSub(var_b[i], mean_b))]),
             RInt(n - 1))

(* np.cov(var_a, var_b, ddof=1)[0][1] for samples of one length without     *)
(* nan, divided by sqrt(n * n) = n when std_err is set: lines 69-74         *)
compute_covariance(var_a, var_b, std_err) ==
    LET n == Len(var_a)
        mean_a == FDiv(seq_sum(var_a), RInt(n))
        mean_b == FDiv(seq_sum(var_b), RInt(n))
        cov_ab == FDiv(seq_sum([i \in 1..n |->
                                   FMul(FSub(var_a[i], mean_a), FSub(var_b[i], mean_b))]),
                       RInt(n - 1))
    IN  IF std_err THEN FDiv(cov_ab, RInt(n)) ELSE cov_ab

(* Calls of compute_stats and compute_ratio_std                             *)
MaxSample == 5

SampleValues == {RInt(1), RInt(2), RInt(3), RInt(4), RInt(5), NaN}

Samples == UNION {[1..k -> SampleValues] : k \in 0..MaxSample}

RatioAvgs == {RInt(-2), RZero, RInt(1), RInt(2)}

RatioStds == {RootOf(RZero), RootOf(Rat(1, 20)), RootOf(Rat(1, 10)), RootOf(RInt(1))}

RatioCovs == {RInt(-1), RZero, Rat(1, 100)}

(* numpy: the arguments are numpy float64 scalars, otherwise Python floats  *)
InitStats ==
    /\ OthersIdle
    /\ conv = ConvIdle
    /\ mix = MixIdle
    /\ single = SingleIdle
    /\ pot = PotIdle
    /\ unc = UncIdle
    /\ \/ \E variable \in Samples :
             stat = [pc |-> "call", fn |-> "compute_stats", variable |-> variable,
                     result |-> <<>>]
       \/ \E avg_a \in RatioAvgs, avg_b \in RatioAvgs, std_a \in RatioStds,
             std_b \in RatioStds, cov \in RatioCovs, numpy \in BOOLEAN :
             stat = [pc |-> "call", fn |-> "compute_ratio_std", avg_a |-> avg_a,
                     avg_b |-> avg_b, std_a |-> std_a, std_b |-> std_b, cov |-> cov,
                     numpy |-> numpy, result |-> <<>>]

ComputeStatsReturn ==
    /\ stat.pc = "call"
    /\ stat.fn = "compute_stats"
    /\ stat' = [stat EXCEPT !.pc = "done", !.result = compute_stats(stat.variable)]
    /\ UNCHANGED <<conv, mix, single, pot, unc, eff, mask, erfu, drv, sel>>

(* A Python float division by zero raises; avg_a / avg_b is evaluated first *)
python_zero_division(avg_a, avg_b) == avg_a = RZero \/ avg_b = RZero

ComputeRatioStdReturn ==
    /\ stat.pc = "call"
    /\ stat.fn = "compute_ratio_std"
    /\ stat.numpy \/ ~python_zero_division(stat.avg_a, stat.avg_b)
    /\ stat' = [stat EXCEPT !.pc = "done",
                   !.result = compute_ratio_std(stat.avg_a, stat.avg_b, stat.std_a,
                                                stat.std_b, stat.cov)]
    /\ UNCHANGED <<conv, mix, single, pot, unc, eff, mask, erfu, drv, sel>>

ComputeRatioStdZeroDivision ==
    /\ stat.pc = "call"
    /\ stat.fn = "compute_ratio_std"
    /\ ~stat.numpy
    /\ python_zero_division(stat.avg_a, stat.avg_b)
    /\ stat' = [stat EXCEPT !.pc = "ZeroDivisionError"]
    /\ UNCHANGED <<conv, mix, single, pot, unc, eff, mask, erfu, drv, sel>>

NextStats ==
    \/ ComputeStatsReturn
    \/ ComputeRatioStdReturn
    \/ ComputeRatioStdZeroDivision

SpecStats == InitStats /\ [][NextStats]_vars

----------------------------------------------------------------------------
(* uncertainties/total_uncertainties.py: get_potential_uncertainties, with  *)
(* uncertainties/climate_variables.py: get_climate_stats and                *)
(* uncertainties/ctl_runs.py: get_model_variability                         *)

EMISS_REGIONS == {"NHML", "US", "China", "EastAsia", "India", "Europe"}

BC_EMISS_REGIONS == {"Global", "Asia"}

RESPONSE_REGION_OPTIONS ==
    <<"Global", "Tropics", "NHML", "NHHL", "SHML", "SHHL", "Europe", "US", "China",
      "East Asia", "India", "Sahel", "All Regions">>

(* list(RESPONSE_REGION_OPTIONS.values())[:-1]                              *)
get_response_regions ==
    SubSeq(RESPONSE_REGION_OPTIONS, 1, Len(RESPONSE_REGION_OPTIONS) - 1)

(* The standard deviations of k given with the values of k                  *)
SPECS_k_std(pollutant) ==
    CASE pollutant = "SO2" -> Rat(317, 1000)
      [] pollutant = "BC"  -> Rat(819, 1000)
      [] pollutant = "CO2" -> Rat(160, 1000)
      [] pollutant = "CH4" -> Rat(383, 1000)

(* Number of control simulations                                            *)
N == 6

(* Control simulations: the regional averages of the N models.  A table     *)
(* gives every response region one of these samples, by its position.  The  *)
(* samples have the means 1, 2, 2, 0, -1, 2, 1; their squared deviations    *)
(* sum to 30 or to 0, which keeps the squared standard errors (1 or 0) and  *)
(* the sums of relative terms within 32-bit numerators and denominators.    *)
ControlSamples ==
    << <<-4, 2, 2, 2, 2, 2>>, <<7, 1, 1, 1, 1, 1>>, <<2, 2, 2, 2, 2, 2>>,
       <<-5, 1, 1, 1, 1, 1>>, <<0, -6, 0, 0, 0, 0>>, <<3, -3, 3, 3, 3, 3>>,
       <<2, 2, 2, 2, 2, -4>> >>

ControlTables == 0..(Len(ControlSamples) - 1)

region_position(region) ==
    CHOOSE i \in DOMAIN get_response_regions : get_response_regions[i] = region

control_sample(table, region) ==
    RatSeq(ControlSamples[((region_position(region) - 1 + table) % Len(ControlSamples)) + 1])

(* ctl_runs.get_model_variability('All regions'): per region the N model    *)
(* averages, their mean, standard deviation and standard error (the column  *)
(* climate_variables.py reads as 'std_err')                                 *)
get_model_variability(table) ==
    [region \in Range(get_response_regions) |->
        LET models == control_sample(table, region)
            std == nanstd(models, 1)
        IN  [models |-> models, avg |-> nanmean(models), std |-> std,
             std_err |-> root_div_sqrt(std, N)]]

(* climate_variables.get_climate_stats for a list of regions: a list always *)
(* selects 'All regions' (lines 42-43), so the lists returned run over      *)
(* get_response_regions() whatever the list holds                           *)
ratio_std_errs(df) ==
    [i \in DOMAIN get_response_regions |->
        LET region == get_response_regions[i]
        IN  compute_ratio_std(df[region].avg, df["Global"].avg, df[region].std_err,
                              df["Global"].std_err,
                              compute_covariance(df[region].models, df["Global"].models,
                                                 TRUE))]

get_climate_stats(temp_df, precip_df) ==
    [reg_temp_avg |-> [i \in DOMAIN get_response_regions |->
                          temp_df[get_response_regions[i]].avg],
     glo_temp_avg |-> temp_df["Global"].avg,
     temp_ratio_std_err |-> ratio_std_errs(temp_df),
     reg_precip_avg |-> [i \in DOMAIN get_response_regions |->
                            precip_df[get_response_regions[i]].avg],
     glo_precip_avg |-> precip_df["Global"].avg,
     precip_ratio_std_err |-> ratio_std_errs(precip_df)]

(* Lines 70-73                                                              *)
region_names_of(response_regions) ==
    IF "All regions" \in Range(response_regions)
    THEN get_response_regions ELSE response_regions

regional_erf_loaded(pollutant, regional) ==
    [reg_erf_avg |-> regional.erf_avg, reg_erf_std_err |-> regional.erf_std_err,
     reg_erfa_avg |-> regional.erfa_avg, reg_erfa_std_err |-> regional.erfa_std_err]

(* Lines 82-94; regional is what erf.get_bc_regional_uncertainty or         *)
(* erf.get_so2_regional_uncertainty returns                                 *)
regional_erf(pollutant, regional) ==
    IF pollutant = "BC"
    THEN [reg_erf_avg |-> regional.erf_avg, reg_erf_std_err |-> regional.erf_std_err,
          reg_erfa_avg |-> regional.erfa_avg, reg_erfa_std_err |-> regional.erfa_std_err]
    ELSE IF pollutant = "SO2"
    THEN [reg_erf_avg |-> regional.erf_avg, reg_erf_std_err |-> regional.erf_std_err,
          reg_erfa_avg |-> FMul(SPECS_fp(pollutant), regional.erf_avg),
          reg_erfa_std_err |-> root_mul(FAbs(SPECS_fp(pollutant)), regional.erf_std_err)]
    ELSE [reg_erf_avg |-> RInt(1), reg_erf_std_err |-> RootOf(RZero),
          reg_erfa_avg |-> RInt(1), reg_erfa_std_err |-> RootOf(RZero)]

(* (std_err / avg) ** 2                                                     *)
rel_sq(std_err, avg) == root_sq(root_div(std_err, avg))

artp_total_std_no_scaling(s, i) ==
    np_sqrt(FAdd(FAdd(rel_sq(s.reg_erf_std_err, s.reg_erf_avg),
                      rel_sq(s.glo_erf_std_err, s.glo_erf_avg)),
                 rel_sq(s.temp_ratio_std_err[i],
                        FDiv(s.reg_temp_avg[i], s.glo_temp_avg))))

(* Lines 110-117; s holds the statistics loaded, i is 1-based               *)
artp_total_std(s, i) ==
    np_sqrt(FAdd(FAdd(FAdd(rel_sq(s.reg_erf_std_err, s.reg_erf_avg),
                           rel_sq(s.glo_erf_std_err, s.glo_erf_avg)),
                      rel_sq(s.temp_ratio_std_err[i],
                             FDiv(s.reg_temp_avg[i], s.glo_temp_avg))),
                 rel_sq(s.c_scaling_std_err, s.c_scaling_avg)))

(* Lines 119-127                                                            *)
slow_arpp_total_std(s, i) ==
    np_sqrt(FAdd(FAdd(FAdd(FAdd(rel_sq(s.reg_erf_std_err, s.reg_erf_avg),
                                rel_sq(s.glo_erf_std_err, s.glo_erf_avg)),
                           rel_sq(s.precip_ratio_std_err[i],
                                  FDiv(s.reg_precip_avg[i], s.glo_precip_avg))),
                      rel_sq(s.c_scaling_std_err, s.c_scaling_avg)),
                 FSq(FDiv(s.k_std, s.k))))

(* Lines 129-135                                                            *)
fast_arpp_total_std(s, i) ==
    np_sqrt(FAdd(FAdd(rel_sq(s.reg_erfa_std_err, s.reg_erfa_avg),
                      rel_sq(s.glo_erfa_std_err, s.glo_erfa_avg)),
                 rel_sq(s.precip_ratio_std_err[i],
                        FDiv(s.reg_precip_avg[i], s.glo_precip_avg))))

(* What the data files hold: the control simulations, and the ERF           *)
(* statistics erf.get_*_regional_uncertainty, erf.get_global_uncertainty    *)
(* and scaling.get_mm_scaling(pollutant, 'temperature')[2:4] return         *)
ClimateData == {[temp |-> t, precip |-> (t + 2) % Len(ControlSamples)] : t \in ControlTables}

ErfStats ==
    { [erf_avg |-> RInt(2), erf_std_err |-> RootOf(Rat(1, 2)),
       erfa_avg |-> RInt(-1), erfa_std_err |-> RootOf(Rat(1, 2))],
      [erf_avg |-> RZero, erf_std_err |-> RootOf(Rat(1, 2)),
       erfa_avg |-> RInt(1), erfa_std_err |-> RootOf(RZero)],
      [erf_avg |-> RInt(-1), erf_std_err |-> RootOf(RZero),
       erfa_avg |-> RZero, erfa_std_err |-> RootOf(Rat(1, 2))] }

CScalingStats ==
    { [avg |-> RInt(1), std_err |-> RootOf(Rat(1, 2))],
      [avg |-> RInt(2), std_err |-> RootOf(RZero)],
      [avg |-> RZero, std_err |-> RootOf(Rat(1, 2))] }

PollutantNames == POLLUTANTS \cup {"NOx"}

EmissionRegionNames == EMISS_REGIONS \cup BC_EMISS_REGIONS \cup {"Africa"}

ResponseRegionLists ==
    {<<"All regions">>, get_response_regions, <<"Europe">>, <<"Global", "Tropics">>}

InitUncertainties ==
    /\ OthersIdle
    /\ conv = ConvIdle
    /\ mix = MixIdle
    /\ single = SingleIdle
    /\ pot = PotIdle
    /\ stat = StatIdle
    /\ \E pollutant \in PollutantNames, emission_region \in EmissionRegionNames,
          response_regions \in ResponseRegionLists, data \in ClimateData,
          regional \in ErfStats, global \in ErfStats, c_scaling \in CScalingStats :
          unc = [pc |-> "call", pollutant |-> pollutant,
                 emission_region |-> emission_region,
                 response_regions |-> response_regions, data |-> data,
                 regional |-> regional, global |-> global, c_scaling |-> c_scaling,
                 loads |-> 0, stats |-> <<>>, result |-> <<>>, potentials |-> <<>>,
                 stds |-> <<>>, error |-> "none"]

region_accepted_any(pollutant, emission_region) == emission_region \in EMISS_REGIONS

(* Lines 57-62                                                              *)
region_accepted(pollutant, emission_region) ==
    IF pollutant = "BC" THEN emission_region \in BC_EMISS_REGIONS
    ELSE emission_region \in EMISS_REGIONS

(* Line 55                                                                  *)
UncAssertPollutant ==
    /\ unc.pc = "call"
    /\ unc.pollutant \notin POLLUTANTS
    /\ unc' = [unc EXCEPT !.pc = "AssertionError", !.error = "pollutant"]
    /\ UNCHANGED <<conv, mix, single, pot, stat, eff, mask, erfu, drv, sel>>

UncAssertRegion ==
    /\ unc.pc = "call"
    /\ unc.pollutant \in POLLUTANTS
    /\ ~region_accepted(unc.pollutant, unc.emission_region)
    /\ unc' = [unc EXCEPT !.pc = "AssertionError", !.error = "emission_region"]
    /\ UNCHANGED <<conv, mix, single, pot, stat, eff, mask, erfu, drv, sel>>

(* get_climate_stats(region_names) for each data set                        *)
ClimateStats ==
    [data \in ClimateData |->
        get_climate_stats(get_model_variability(data.temp),
                          get_model_variability(data.precip))]

(* Lines 64-100: the statistics the loop reads                              *)
loaded_stats(pollutant, data, regional, global, c_scaling) ==
    LET climate == ClimateStats[data]
        reg == regional_erf(pollutant, regional)
    IN  [k |-> SPECS_k(pollutant), k_std |-> SPECS_k_std(pollutant),
         reg_temp_avg |-> climate.reg_temp_avg, glo_temp_avg |-> climate.glo_temp_avg,
         temp_ratio_std_err |-> climate.temp_ratio_std_err,
         reg_precip_avg |-> climate.reg_precip_avg,
         glo_precip_avg |-> climate.glo_precip_avg,
         precip_ratio_std_err |-> climate.precip_ratio_std_err,
         reg_erf_avg |-> reg.reg_erf_avg, reg_erf_std_err |-> reg.reg_erf_std_err,
         reg_erfa_avg |-> reg.reg_erfa_avg, reg_erfa_std_err |-> reg.reg_erfa_std_err,
         glo_erf_avg |-> global.erf_avg, glo_erf_std_err |-> global.erf_std_err,
         glo_erfa_avg |-> global.erfa_avg, glo_erfa_std_err |-> global.erfa_std_err,
         c_scaling_avg |-> c_scaling.avg, c_scaling_std_err |-> c_scaling.std_err]

(* The data readers called: get_climate_stats, the regional ERF reader for  *)
(* BC and SO2, get_global_uncertainty                                       *)
readers_called(pollutant) == IF pollutant \in {"BC", "SO2"} THEN 3 ELSE 2

UncLoadStatistics ==
    /\ unc.pc = "call"
    /\ unc.pollutant \in POLLUTANTS
    /\ region_accepted(unc.pollutant, unc.emission_region)
    /\ unc' = [unc EXCEPT !.pc = "loaded",
                  !.loads = readers_called(unc.pollutant),
                  !.stats = loaded_stats(unc.pollutant, unc.data, unc.regional,
                                         unc.global, unc.c_scaling)]
    /\ UNCHANGED <<conv, mix, single, pot, stat, eff, mask, erfu, drv, sel>>

(* Lines 102-137                                                            *)
total_stds(s, n_regions) ==
    [artp_total_std |-> [i \in 1..n_regions |-> artp_total_std(s, i)],
     slow_arpp_total_std |-> [i \in 1..n_regions |-> slow_arpp_total_std(s, i)],
     fast_arpp_total_std |-> [i \in 1..n_regions |-> fast_arpp_total_std(s, i)]]

UncReturn ==
    /\ unc.pc = "loaded"
    /\ unc' = [unc EXCEPT !.pc = "done",
                  !.result = total_stds(unc.stats,
                                 Len(region_names_of(unc.response_regions)))]
    /\ UNCHANGED <<conv, mix, single, pot, stat, eff, mask, erfu, drv, sel>>

(* The absolute standard deviations the drivers take from                   *)
(* propagation.get_potential_uncertainties(pollutant, emission_region,      *)
(* response_regions, artp, slow_arpp, fast_arpp): the values above          *)
(* multiplied by the absolute value of the potential (docstring lines       *)
(* 12-13), slow and fast ARPP combined in quadrature                        *)
potential_stds(rel, artp, slow_arpp, fast_arpp) ==
    [artp_std |-> [i \in DOMAIN rel.artp_total_std |->
                      root_mul(FAbs(artp[i]), rel.artp_total_std[i])],
     arpp_std |-> [i \in DOMAIN rel.slow_arpp_total_std |->
                      np_sqrt(FAdd(root_sq(root_mul(FAbs(slow_arpp[i]),
                                                    rel.slow_arpp_total_std[i])),
                                   root_sq(root_mul(FAbs(fast_arpp[i]),
                                                    rel.fast_arpp_total_std[i]))))]]

(* Potentials of the response regions, the same in every region             *)
PotentialValues ==
    { [artp |-> RInt(-2), slow_arpp |-> RInt(2), fast_arpp |-> RInt(-1)],
      [artp |-> Rat(1, 2), slow_arpp |-> RZero, fast_arpp |-> RInt(2)] }

UncPotentialStd ==
    /\ unc.pc = "done"
    /\ \E p \in PotentialValues :
          LET n == Len(unc.result.artp_total_std)
              artp == [i \in 1..n |-> p.artp]
              slow_arpp == [i \in 1..n |-> p.slow_arpp]
              fast_arpp == [i \in 1..n |-> p.fast_arpp]
          IN  unc' = [unc EXCEPT !.pc = "scaled",
                         !.potentials = [artp |-> artp, slow_arpp |-> slow_arpp,
                                         fast_arpp |-> fast_arpp],
                         !.stds = potential_stds(unc.result, artp, slow_arpp, fast_arpp)]
    /\ UNCHANGED <<conv, mix, single, pot, stat, eff, mask, erfu, drv, sel>>

NextUncertainties ==
    \/ UncAssertPollutant
    \/ UncAssertRegion
    \/ UncLoadStatistics
    \/ UncReturn
    \/ UncPotentialStd

SpecUncertainties == InitUncertainties /\ [][NextUncertainties]_vars

----------------------------------------------------------------------------
(* simulations/variables.py: compute_radiative_efficiency                   *)

(* constants.SPECS[pollutant]['tau'] of the single-lifetime pollutants      *)
SPECS_tau(pollutant) ==
    IF pollutant = "SO2" THEN Rat(435, 36500)
    ELSE IF pollutant = "BC" THEN Rat(68, 3650)
    ELSE Rat(12028, 1000)

(* erf * (rr_temp_avg / temp_avg) / denominator, element by element         *)
regional_rad_eff(erf, rr_temp_avg, temp_avg, denominator) ==
    [i \in DOMAIN rr_temp_avg |->
        RDiv(RMul(erf, RDiv(rr_temp_avg[i], temp_avg)), denominator)]

(* Lines 129-154; RF_scaling is scaling.get_mm_scaling(pollutant,           *)
(* 'temperature')[1]                                                        *)
rad_eff_of(pollutant, erf, erf_a, delta_emiss_mass, rr_temp_avg, temp_avg, RF_scaling) ==
    IF pollutant = "SO2"
    THEN LET den == RMul(delta_emiss_mass, SPECS_tau(pollutant))
         IN  [rr_rad_eff |-> regional_rad_eff(RMul(erf, RF_scaling), rr_temp_avg,
                                              temp_avg, den),
              rad_eff    |-> RDiv(RMul(erf, RF_scaling), den),
              rad_eff_a  |-> RDiv(RMul(erf_a, RF_scaling), den)]
    ELSE IF pollutant = "CO2"
    THEN [rr_rad_eff |-> regional_rad_eff(erf, rr_temp_avg, temp_avg, delta_emiss_mass),
          rad_eff    |-> RDiv(erf, delta_emiss_mass),
          rad_eff_a  |-> RDiv(erf_a, delta_emiss_mass)]
    ELSE LET den == RMul(delta_emiss_mass, SPECS_tau(pollutant))
         IN  [rr_rad_eff |-> regional_rad_eff(erf, rr_temp_avg, temp_avg, den),
              rad_eff    |-> RDiv(erf, den),
              rad_eff_a  |-> RDiv(erf_a, den)]

(* What the data files and get_mm_scaling hold for a call                   *)
ErfValues == {RInt(-1), RInt(2)}

RegionalTempAvgs == {<<RInt(1), RInt(2)>>, <<RInt(-1), RInt(3)>>}

TempAvgs == {RInt(1), RInt(-2)}

MmRfScalings == {Rat(1, 2), RInt(2)}

InitEfficiency ==
    /\ conv = ConvIdle
    /\ mix = MixIdle
    /\ single = SingleIdle
    /\ pot = PotIdle
    /\ stat = StatIdle
    /\ unc = UncIdle
    /\ mask = MaskIdle
    /\ erfu = ErfIdle
    /\ drv = DrvIdle
    /\ sel = SelIdle
    /\ \E pollutant \in PollutantNames, erf \in ErfValues, erf_a \in ErfValues,
          m \in EmissMasses, rr_temp_avg \in RegionalTempAvgs, temp_avg \in TempAvgs,
          RF_scaling \in MmRfScalings :
          eff = [pc |-> "call", pollutant |-> pollutant, erf |-> erf, erf_a |-> erf_a,
                 delta_emiss_mass |-> RInt(m), rr_temp_avg |-> rr_temp_avg,
                 temp_avg |-> temp_avg, RF_scaling |-> RF_scaling, result |-> <<>>]

(* Line 113                                                                 *)
EffAssertPollutant ==
    /\ eff.pc = "call"
    /\ eff.pollutant \notin POLLUTANTS
    /\ eff' = [eff EXCEPT !.pc = "AssertionError"]
    /\ UNCHANGED <<conv, mix, single, pot, stat, unc, mask, erfu, drv, sel>>

(* Lines 114-154                                                            *)
EffReturn ==
    /\ eff.pc = "call"
    /\ eff.pollutant \in POLLUTANTS
    /\ eff' = [eff EXCEPT !.pc = "done",
                 !.result = rad_eff_of(eff.pollutant, eff.erf, eff.erf_a,
                                       eff.delta_emiss_mass, eff.rr_temp_avg,
                                       eff.temp_avg, eff.RF_scaling)]
    /\ UNCHANGED <<conv, mix, single, pot, stat, unc, mask, erfu, drv, sel>>

NextEfficiency == EffAssertPollutant \/ EffReturn

SpecEfficiency == InitEfficiency /\ [][NextEfficiency]_vars

----------------------------------------------------------------------------
(* simulations/regions.py: get_region_mask, and the aggregations that call  *)
(* it                                                                       *)

(* Lines 22-93: lon_min, lon_max, lat_min, lat_max of the regions           *)
REGIONS ==
    {"Global", "Tropics", "NHML", "NHHL", "SHML", "SHHL", "Europe", "US", "China",
     "East Asia", "India", "Sahel", "Asia"}

region_bounds(region) ==
    CASE region = "Global"    -> <<0, 360, -90, 90>>
      [] region = "Tropics"   -> <<0, 360, -30, 30>>
      [] region = "NHML"      -> <<0, 360, 30, 60>>
      [] region = "NHHL"      -> <<0, 360, 60, 90>>
      [] region = "SHML"      -> <<0, 360, -60, -30>>
      [] region = "SHHL"      -> <<0, 360, -90, -60>>
      [] region = "Europe"    -> <<-10, 40, 37, 70>>
      [] region = "US"        -> <<235, 290, 30, 50>>
      [] region = "China"     -> <<80, 120, 20, 50>>
      [] region = "East Asia" -> <<105, 145, 20, 45>>
      [] region = "India"     -> <<70, 90, 10, 30>>
      [] region = "Sahel"     -> <<-17, 38, 9, 19>>
      [] region = "Asia"      -> <<60, 140, 10, 50>>

(* The grid of the control file: longitude[x] = 1.875 * x for x = 0..191,   *)
(* latitude[y] = -90 + 1.25 * y for y = 0..144                              *)
longitude(x) == Rat(15 * x, 8)

latitude(y) == Rat(5 * y - 360, 4)

(* The columns and rows of the grid a mask is followed on                   *)
LonSamples ==
    { <<0, 16, 64, 128, 184, 191>>, <<5, 21, 48, 100, 150, 183>>,
      <<10, 40, 60, 75, 182, 190>> }

LatSamples ==
    { <<0, 36, 72, 84, 104, 124, 144>>, <<24, 48, 80, 88, 96, 102, 128>>,
      <<12, 79, 87, 92, 101, 112, 136>> }

(* Names a caller may pass: the regions of the table, the emission-region   *)
(* spelling of East Asia and a misspelling                                  *)
RegionNamesPassed == REGIONS \cup {"EastAsia", "Euorpe", "All regions"}

MaskCallers == {"get_region_mask", "compute_climate_variables", "get_model_variability"}

(* Line 109                                                                 *)
cell_in_region(b, x, y) ==
    /\ RLeq(RInt(b[1]), longitude(x))
    /\ RLeq(longitude(x), RInt(b[2]))
    /\ RLeq(RInt(b[3]), latitude(y))
    /\ RLeq(latitude(y), RInt(b[4]))

(* Lines 105-113: grid[y][x] over the rows and columns followed             *)
region_grid(region, lons, lats) ==
    [j \in DOMAIN lats |->
        [i \in DOMAIN lons |->
            IF cell_in_region(region_bounds(region), lons[i], lats[j]) THEN 1 ELSE 0]]

InitRegions ==
    /\ conv = ConvIdle
    /\ mix = MixIdle
    /\ single = SingleIdle
    /\ pot = PotIdle
    /\ stat = StatIdle
    /\ unc = UncIdle
    /\ eff = EffIdle
    /\ erfu = ErfIdle
    /\ drv = DrvIdle
    /\ sel = SelIdle
    /\ \E region \in RegionNamesPassed, caller \in MaskCallers,
          lons \in LonSamples, lats \in LatSamples :
          mask = [pc |-> "call", caller |-> caller, region |-> region, lons |-> lons,
                  lats |-> lats, value |-> "unset", grid |-> <<>>, printed |-> "",
                  rr_area |-> -1, error |-> "none"]

(* Lines 13-93 and 105-113: a region of the table                           *)
MaskReturn ==
    /\ mask.pc = "call"
    /\ mask.region \in REGIONS
    /\ mask' = [mask EXCEPT !.pc = "returned", !.value = "array",
                   !.grid = region_grid(mask.region, mask.lons, mask.lats)]
    /\ UNCHANGED <<conv, mix, single, pot, stat, unc, eff, erfu, drv, sel>>

(* Lines 100-102: any other name prints a message and returns None          *)
MaskReturnNone ==
    /\ mask.pc = "call"
    /\ mask.region \notin REGIONS
    /\ mask' = [mask EXCEPT !.pc = "returned", !.value = "None",
                   !.printed = "Region not available or not existent"]
    /\ UNCHANGED <<conv, mix, single, pot, stat, unc, eff, erfu, drv, sel>>

(* variables.py 51-52 and ctl_runs.py 72-73: areas * mask summed, here with *)
(* cells of area 1                                                          *)
MaskAggregate ==
    /\ mask.pc = "returned"
    /\ mask.caller # "get_region_mask"
    /\ mask.value = "array"
    /\ mask' = [mask EXCEPT !.pc = "aggregated",
                   !.rr_area = seq_sum([j \in DOMAIN mask.grid |->
                                   RInt(seq_sum([i \in DOMAIN mask.grid[j] |->
                                            RInt(mask.grid[j][i])]).n)]).n]
    /\ UNCHANGED <<conv, mix, single, pot, stat, unc, eff, erfu, drv, sel>>

(* areas * None raises TypeError                                            *)
MaskAggregateTypeError ==
    /\ mask.pc = "returned"
    /\ mask.caller # "get_region_mask"
    /\ mask.value = "None"
    /\ mask' = [mask EXCEPT !.pc = "TypeError",
                   !.error = "unsupported operand type(s) for *"]
    /\ UNCHANGED <<conv, mix, single, pot, stat, unc, eff, erfu, drv, sel>>

NextRegions == MaskReturn \/ MaskReturnNone \/ MaskAggregate \/ MaskAggregateTypeError

SpecRegions == InitRegions /\ [][NextRegions]_vars

----------------------------------------------------------------------------
(* uncertainties/erf.py: get_regional_uncertainty                           *)

(* The models of the PDRMIP lookup tables, in the order of the files        *)
PDRMIP_MODELS == <<"CanESM2", "HadGEM2", "MPI-ESM", "NorESM1">>

PerturbationNames == {"10xBC_", "10xBCAsia", "3xCH4", "2xCO2"}

(* What a model's entry of a lookup table may hold: every experiment, no    *)
(* perturbation experiment, or every experiment but 'base'                  *)
EntryKinds == {"all", "base only", "no base"}

entry_keys(kind) ==
    IF kind = "all" THEN PerturbationNames \cup {"base"}
    ELSE IF kind = "base only" THEN {"base"}
    ELSE PerturbationNames

(* The value of experiment key of the model at position m: distinct per     *)
(* model and experiment                                                     *)
entry_value(m, key) == RInt(IF key = "base" THEN m ELSE 2 * m * m - 3)

(* mean_erf_t.pop(model, None) for the models of lines 136-147              *)
popped_models(pollutant, emission_region) ==
    IF pollutant # "BC" THEN {}
    ELSE IF emission_region = "Global" THEN {"MPI-ESM"}
    ELSE {"MPI-ESM", "CanESM2", "HadGEM2"}

(* Lines 131-153                                                            *)
pert_name_of(pollutant, emission_region) ==
    IF pollutant = "BC"
    THEN (IF emission_region = "Global" THEN "10xBC_" ELSE "10xBCAsia")
    ELSE IF pollutant = "CH4" THEN "3xCH4"
    ELSE "2xCO2"

(* Lines 156-161: the positions of the models whose entry holds key, in the *)
(* order of the table; the ERFa lists are built in the same way from the    *)
(* second table                                                             *)
models_with(table, popped, key) ==
    SelectSeq([m \in DOMAIN PDRMIP_MODELS |-> m],
              LAMBDA m : /\ PDRMIP_MODELS[m] \notin popped
                         /\ key \in entry_keys(table[m]))

experiment_values(models, key) == [i \in DOMAIN models |-> entry_value(models[i], key)]

(* Lines 122-123: the name compared is 'S02', written with the digit zero;   *)
(* the assert of line 120 has already rejected that name, so the raise is   *)
(* never reached                                                            *)
raises_value_error(pollutant) == pollutant = "S02"

ErfPollutants == POLLUTANTS \cup {"S02", "NOx"}

ErfEmissionRegions == {"Global", "Asia", "Europe"}

InitErf ==
    /\ conv = ConvIdle
    /\ mix = MixIdle
    /\ single = SingleIdle
    /\ pot = PotIdle
    /\ stat = StatIdle
    /\ unc = UncIdle
    /\ eff = EffIdle
    /\ mask = MaskIdle
    /\ drv = DrvIdle
    /\ sel = SelIdle
    /\ \E pollutant \in ErfPollutants, emission_region \in ErfEmissionRegions,
          table \in [DOMAIN PDRMIP_MODELS -> EntryKinds] :
          erfu = [pc |-> "call", pollutant |-> pollutant,
                  emission_region |-> emission_region, table |-> table,
                  files_read |-> 0, pert_name |-> "", ctl_models |-> <<>>,
                  pert_models |-> <<>>, ctl_erf |-> <<>>, pert_erf |-> <<>>,
                  result |-> <<>>, error |-> "none"]

(* Line 120                                                                 *)
ErfAssertPollutant ==
    /\ erfu.pc = "call"
    /\ erfu.pollutant \notin POLLUTANTS
    /\ erfu' = [erfu EXCEPT !.pc = "AssertionError", !.error = "pollutant"]
    /\ UNCHANGED <<conv, mix, single, pot, stat, unc, eff, mask, drv, sel>>

(* Lines 126-133: the two tables are read, then the region of BC is checked *)
ErfAssertRegion ==
    /\ erfu.pc = "call"
    /\ erfu.pollutant \in POLLUTANTS
    /\ ~raises_value_error(erfu.pollutant)
    /\ erfu.pollutant = "BC"
    /\ erfu.emission_region \notin BC_EMISS_REGIONS
    /\ erfu' = [erfu EXCEPT !.pc = "AssertionError", !.error = "emission_region",
                   !.files_read = 2]
    /\ UNCHANGED <<conv, mix, single, pot, stat, unc, eff, mask, drv, sel>>

(* Lines 126-161: the samples of the control and perturbation experiments   *)
ErfSelectSamples ==
    /\ erfu.pc = "call"
    /\ erfu.pollutant \in POLLUTANTS
    /\ ~raises_value_error(erfu.pollutant)
    /\ erfu.pollutant = "BC" => erfu.emission_region \in BC_EMISS_REGIONS
    /\ LET popped == popped_models(erfu.pollutant, erfu.emission_region)
           pert_name == pert_name_of(erfu.pollutant, erfu.emission_region)
           ctl == models_with(erfu.table, popped, "base")
           pert == models_with(erfu.table, popped, pert_name)
       IN  erfu' = [erfu EXCEPT !.pc = "sampled", !.files_read = 2,
                       !.pert_name = pert_name,
                       !.ctl_models = ctl, !.pert_models = pert,
                       !.ctl_erf = experiment_values(ctl, "base"),
                       !.pert_erf = experiment_values(pert, pert_name)]
    /\ UNCHANGED <<conv, mix, single, pot, stat, unc, eff, mask, drv, sel>>

(* Lines 164-183: np.cov of samples of different lengths raises ValueError  *)
ErfCovarianceValueError ==
    /\ erfu.pc = "sampled"
    /\ Len(erfu.ctl_erf) # Len(erfu.pert_erf)
    /\ erfu' = [erfu EXCEPT !.pc = "ValueError", !.error = "np.cov"]
    /\ UNCHANGED <<conv, mix, single, pot, stat, unc, eff, mask, drv, sel>>

(* Lines 164-183: pert average - control average and the standard error of  *)
(* the difference                                                           *)
ErfReturn ==
    /\ erfu.pc = "sampled"
    /\ Len(erfu.ctl_erf) = Len(erfu.pert_erf)
    /\ LET ctl == compute_stats(erfu.ctl_erf)
           pert == compute_stats(erfu.pert_erf)
           cov == IF Len(erfu.ctl_erf) = 0 THEN NaN
                  ELSE compute_covariance(erfu.ctl_erf, erfu.pert_erf, TRUE)
       IN  erfu' = [erfu EXCEPT !.pc = "done",
                       !.result =
                           [ctl_pert_erf_avg |-> FSub(pert.avg, ctl.avg),
                            ctl_pert_erf_std_err |->
                                np_sqrt(FSub(FAdd(root_sq(ctl.std_err),
                                                  root_sq(pert.std_err)),
                                             FMul(RInt(2), cov)))]]
    /\ UNCHANGED <<conv, mix, single, pot, stat, unc, eff, mask, drv, sel>>

NextErf ==
    \/ ErfAssertPollutant
    \/ ErfAssertRegion
    \/ ErfSelectSamples
    \/ ErfCovarianceValueError
    \/ ErfReturn

SpecErf == InitErf /\ [][NextErf]_vars

----------------------------------------------------------------------------
(* so2_co2_mixed_temp_scenario.py: the loop over the grid times of one      *)
(* pollutant and the call of compute_mixed_scenarios_temperature            *)

MaxDriverTh == 7

(* time_horizons[-1] and time_step of a run; the script itself uses 100 and *)
(* 0.01                                                                     *)
DriverHorizons == 5..MaxDriverTh

DriverTimeSteps == {Rat(1, 1), Rat(1, 2), Rat(5, 1)}

(* Line 55: int(time_horizons[-1] * n_steps) with n_steps = 1 / time_step   *)
driver_grid_size(th, time_step) == (th * time_step.d) \div time_step.n

(* Line 55: np.linspace(time_step, time_horizons[-1], size), built once     *)
(* when the loop starts                                                     *)
driver_grid(th, time_step) ==
    [k \in 1..driver_grid_size(th, time_step) |->
        linspace(time_step, RInt(th), driver_grid_size(th, time_step), k - 1)]

InitDriver ==
    /\ conv = ConvIdle
    /\ mix = MixIdle
    /\ single = SingleIdle
    /\ pot = PotIdle
    /\ stat = StatIdle
    /\ unc = UncIdle
    /\ eff = EffIdle
    /\ mask = MaskIdle
    /\ erfu = ErfIdle
    /\ sel = SelIdle
    /\ \E pol \in POLLUTANTS, th \in DriverHorizons, time_step \in DriverTimeSteps :
          drv = [pc |-> "loop", pol |-> pol, th |-> th, time_step |-> time_step,
                 grid |-> driver_grid(th, time_step), k |-> 0,
                 artp_list |-> <<>>, error |-> "none"]

(* Lines 55-89 for a grid time the potential functions accept: co2 takes    *)
(* every th, slp.compute_atp asserts th >= 5 (slp.py 42); the value         *)
(* appended is recorded by its grid time                                    *)
DriverAppend ==
    /\ drv.pc = "loop"
    /\ drv.k < Len(drv.grid)
    /\ drv.pol = "CO2" \/ ~th_too_small(drv.grid[drv.k + 1])
    /\ drv' = [drv EXCEPT !.k = @ + 1,
                  !.artp_list = Append(@, drv.grid[drv.k + 1])]
    /\ UNCHANGED <<conv, mix, single, pot, stat, unc, eff, mask, erfu, sel>>

(* Lines 72-76 with slp.py 42: the assertion stops the script               *)
DriverAssertTh ==
    /\ drv.pc = "loop"
    /\ drv.k < Len(drv.grid)
    /\ drv.pol # "CO2"
    /\ th_too_small(drv.grid[drv.k + 1])
    /\ drv' = [drv EXCEPT !.pc = "AssertionError",
                  !.error = "The chosen time horizon is smaller than 5."]
    /\ UNCHANGED <<conv, mix, single, pot, stat, unc, eff, mask, erfu, sel>>

(* Lines 91-99: the series is handed to compute_mixed_scenarios_temperature *)
DriverCallScenarios ==
    /\ drv.pc = "loop"
    /\ drv.k = Len(drv.grid)
    /\ drv' = [drv EXCEPT !.pc = "handed"]
    /\ UNCHANGED <<conv, mix, single, pot, stat, unc, eff, mask, erfu, sel>>

NextDriver == DriverAppend \/ DriverAssertTh \/ DriverCallScenarios

SpecDriver == InitDriver /\ [][NextDriver]_vars

(* The script runs on its own: a step that is possible is taken             *)
SpecDriverFair == SpecDriver /\ WF_vars(NextDriver)

----------------------------------------------------------------------------
(* simulations/input_selection.py: select_time_horizon, select_magnitude    *)
(* and select_scenarios. One step is one input() call with the loop         *)
(* iteration around it.                                                     *)

(* What the user may type at a prompt                                       *)
InputTokens == {"y", "n", "maybe", "0", "1", "2", "3", "5", "6", "7",
                "1001", "2.5", "nan"}

(* int(text): the integer, or ValueError for anything that is not an        *)
(* integer literal                                                          *)
IntLiterals ==
    ("0" :> 0) @@ ("1" :> 1) @@ ("2" :> 2) @@ ("3" :> 3) @@ ("5" :> 5)
    @@ ("6" :> 6) @@ ("7" :> 7) @@ ("1001" :> 1001)

int_raises(text) == text \notin DOMAIN IntLiterals

int_of(text) == IntLiterals[text]

(* float(text): integer and decimal literals and 'nan' are accepted         *)
float_raises(text) == int_raises(text) /\ text \notin {"2.5", "nan"}

float_of(text) ==
    IF text = "nan" THEN NaN
    ELSE IF text = "2.5" THEN Rat(5, 2)
    ELSE RInt(IntLiterals[text])

(* x < y on floats: False when either side is NaN                           *)
float_lt(x, y) ==
    /\ ~IsNaN(x)
    /\ ~IsNaN(y)
    /\ IF IsFinite(x) /\ IsFinite(y) THEN x.n * y.d < y.n * x.d
       ELSE IF IsFinite(x) THEN y.n > 0
       ELSE IF IsFinite(y) THEN x.n < 0
       ELSE x.n < y.n

YesAnswers == {"yes", "y", "YES", "Y"}

NoAnswers == {"no", "n", "NO", "N"}

None == [none |-> TRUE]

(* Lines 382-387 *)
scen(i) ==
    CASE i = 0 -> "none"
      [] i = 1 -> "sustained"
      [] i = 2 -> "linear"
      [] i = 3 -> "quadratic"

(* Lines 320, 331: 0 > magnitude or 1000 < magnitude                        *)
magnitude_rejected(magnitude) ==
    float_lt(magnitude, RInt(0)) \/ float_lt(RInt(1000), magnitude)

(* Lines 408, 436: the lower end of the accepted time horizons              *)
ths_lower(ths, i) == IF i = 0 THEN 5 ELSE ths[i]

(* Line 475 *)
scenarios_returned(ths, scenarios, magnitude) ==
    [requested |-> TRUE,
     time_horizons |-> ths,
     scenarios |-> [k \in 1..Len(scenarios) |-> scen(scenarios[k])],
     magnitudes |-> magnitude]

(* Lines 342, 369-372 *)
InitSelection ==
    /\ conv = ConvIdle
    /\ mix = MixIdle
    /\ single = SingleIdle
    /\ pot = PotIdle
    /\ stat = StatIdle
    /\ unc = UncIdle
    /\ eff = EffIdle
    /\ mask = MaskIdle
    /\ erfu = ErfIdle
    /\ drv = DrvIdle
    /\ sel = [pc |-> "standard_th", th |-> 0, i |-> 0,
              scenarios |-> <<0, 0, 0, 0>>, ths |-> <<0, 0, 0>>,
              magnitude |-> <<None, None, None>>, m |-> RInt(-1),
              result |-> None]

(* Lines 343-353: the question about the standard time horizon              *)
SelStandardTh ==
    /\ sel.pc = "standard_th"
    /\ \E answer \in InputTokens :
          sel' = IF answer \in YesAnswers
                 THEN [sel EXCEPT !.th = 100, !.pc = "answer"]
                 ELSE IF answer \in NoAnswers
                 THEN [sel EXCEPT !.th = 0, !.pc = "custom_th"]
                 ELSE sel
    /\ UNCHANGED <<conv, mix, single, pot, stat, unc, eff, mask, erfu, drv>>

(* Lines 355-361: one pass of the loop asking for another time horizon      *)
SelCustomTh ==
    /\ sel.pc = "custom_th"
    /\ \E text \in InputTokens :
          sel' = IF int_raises(text) THEN sel
                 ELSE IF 5 > int_of(text) \/ 500 < int_of(text)
                 THEN [sel EXCEPT !.th = int_of(text)]
                 ELSE [sel EXCEPT !.th = int_of(text), !.pc = "answer"]
    /\ UNCHANGED <<conv, mix, single, pot, stat, unc, eff, mask, erfu, drv>>

(* Lines 373-391: the question about scenarios; 'no' returns at once        *)
SelAnswer ==
    /\ sel.pc = "answer"
    /\ \E answer \in InputTokens :
          sel' = IF answer \in NoAnswers
                 THEN [sel EXCEPT !.pc = "returned",
                          !.result = [requested |-> FALSE,
                                      time_horizons |-> sel.th,
                                      scenarios |-> <<"none", "none", "none", "none">>,
                                      magnitudes |-> sel.magnitude]]
                 ELSE IF answer \in YesAnswers
                 THEN [sel EXCEPT !.pc = "scenario", !.i = 0,
                          !.ths = <<0, 0, 0>>, !.scenarios = <<0, 0, 0, 0>>]
                 ELSE sel
    /\ UNCHANGED <<conv, mix, single, pot, stat, unc, eff, mask, erfu, drv>>

(* Lines 393-406, 422-434, 451-464: one pass of the loop asking for the     *)
(* type of scenario i; the third scenario has no time horizon of its own    *)
SelScenario ==
    /\ sel.pc = "scenario"
    /\ \E text \in InputTokens :
          sel' = IF int_raises(text) THEN sel
                 ELSE IF 1 > int_of(text) \/ 3 < int_of(text)
                 THEN [sel EXCEPT !.scenarios[sel.i + 1] = int_of(text)]
                 ELSE [sel EXCEPT !.scenarios[sel.i + 1] = int_of(text),
                          !.pc = IF sel.i < 2 THEN "ths" ELSE "magnitude",
                          !.m = RInt(-1)]
    /\ UNCHANGED <<conv, mix, single, pot, stat, unc, eff, mask, erfu, drv>>

(* Lines 408-417, 436-446: one pass of the loop asking for the end of       *)
(* scenario i                                                               *)
SelThs ==
    /\ sel.pc = "ths"
    /\ \E text \in InputTokens :
          sel' = IF int_raises(text) THEN sel
                 ELSE IF ths_lower(sel.ths, sel.i) > int_of(text) \/ sel.th < int_of(text)
                 THEN [sel EXCEPT !.ths[sel.i + 1] = int_of(text)]
                 ELSE [sel EXCEPT !.ths[sel.i + 1] = int_of(text),
                          !.pc = "magnitude", !.m = RInt(-1)]
    /\ UNCHANGED <<conv, mix, single, pot, stat, unc, eff, mask, erfu, drv>>

(* Lines 319-336 with 419-421, 448-450, 466-475: one pass of the loop of    *)
(* select_magnitude; an accepted magnitude is stored, and the function      *)
(* goes on to the next scenario or returns                                  *)
SelMagnitude ==
    /\ sel.pc = "magnitude"
    /\ \E text \in InputTokens :
          sel' = IF float_raises(text) THEN sel
                 ELSE IF magnitude_rejected(float_of(text))
                 THEN [sel EXCEPT !.m = float_of(text)]
                 ELSE LET magnitude == [sel.magnitude EXCEPT ![sel.i + 1] = float_of(text)]
                          ths == IF sel.i = 2 THEN [sel.ths EXCEPT ![3] = sel.th]
                                 ELSE sel.ths
                      IN  IF sel.i < 2 /\ sel.ths[sel.i + 1] < sel.th
                          THEN [sel EXCEPT !.m = float_of(text),
                                   !.magnitude = magnitude,
                                   !.pc = "scenario", !.i = @ + 1]
                          ELSE [sel EXCEPT !.m = float_of(text),
                                   !.magnitude = magnitude, !.ths = ths,
                                   !.pc = "returned",
                                   !.result = scenarios_returned(ths, sel.scenarios,
                                                                 magnitude)]
    /\ UNCHANGED <<conv, mix, single, pot, stat, unc, eff, mask, erfu, drv>>

NextSelection ==
    \/ SelStandardTh
    \/ SelCustomTh
    \/ SelAnswer
    \/ SelScenario
    \/ SelThs
    \/ SelMagnitude

SpecSelection == InitSelection /\ [][NextSelection]_vars

----------------------------------------------------------------------------
(* Shorthands for the claims about the scenario functions                   *)

MixedHasEmiss == mix.pc \in {"built", "done"}

SeqNeg(s) == [i \in DOMAIN s |-> RNeg(s[i])]

(* 1-based positions of the last step of segment 1 and the first of segment 2 *)
BoundaryStep == mix.time_horizons[1] * n_steps_of(mix.time_step)

(* C2: compute_mixed_scenarios_temperature computes a response only when    *)
(* len(artp) equals max(time_horizons) / time_step exactly; every other     *)
(* artp length, for every time_step, fails with a shape-mismatch error.     *)
C2_ExactArtpLength ==
    mix.pc = "done" =>
        Len(mix.artp) * mix.time_step.n = SeqMax(mix.time_horizons) * mix.time_step.d

(* C4: when the number of shapes differs from the number of time horizons,  *)
(* or a shape is not sustained/linear/quadratic, or the artp length does    *)
(* not match, the call fails before load_emissions is invoked and before    *)
(* any element of the trajectory or of the response is computed.            *)
C4_BadArguments ==
    \/ Len(mix.emiss_scenarios) # Len(mix.time_horizons)
    \/ \E i \in DOMAIN mix.emiss_scenarios :
          mix.emiss_scenarios[i] \notin {"sustained", "linear", "quadratic"}
    \/ Len(mix.artp) # SeqMax(mix.time_horizons) * (mix.time_step.d \div mix.time_step.n)

C4_FailFast ==
    (mix.pc # "idle" /\ C4_BadArguments) =>
        /\ mix.pc \in {"call", "AssertionError"}
        /\ mix.loads = 0
        /\ mix.emiss = <<>>
        /\ mix.temperature = <<>>

C4_Witness ==
    /\ mix.pc = "AssertionError"
    /\ mix.error = "scenario"
    /\ mix.loads = 0

(* C5: a call whose segment end times are not monotonic (some               *)
(* time_horizons[i] < time_horizons[i-1]) fails with an invalid-parameter   *)
(* error instead of returning a response series.                            *)
C5_NonMonotonicRejected ==
    (mix.pc # "idle" /\ \E i \in 2..Len(mix.time_horizons) :
                            mix.time_horizons[i] < mix.time_horizons[i - 1])
        => mix.pc # "done"

(* The case of C6: two segments, magnitudes [150, 100], shapes              *)
(* [sustained, linear], increasing end times, trajectory built              *)
C6_Case ==
    /\ MixedHasEmiss
    /\ mix.magnitudes = <<150, 100>>
    /\ mix.emiss_scenarios = <<"sustained", "linear">>
    /\ Increasing(mix.time_horizons)

C7_OffsetIsPreviousFinalLevel ==
    (MixedHasEmiss /\ Increasing(mix.time_horizons)) =>
        \A i \in 1..(Len(mix.emiss_scenarios) - 1) :
            prev_scen_emiss(mix.pollutant, mix.delta_emiss_mass, mix.magnitudes,
                            mix.time_horizons, i)
                = mix.emiss[mix.time_horizons[i] * n_steps_of(mix.time_step)]

(* C8: for the same emission mass, magnitudes, shapes, time horizons and    *)
(* artp, every trajectory value and every response value computed for SO2   *)
(* is the negation of the value computed for BC or CH4, in both             *)
(* compute_mixed_scenarios_temperature and compute_scenarios_temperature.   *)
OppositeOf(pollutant) == IF pollutant = "SO2" THEN {"BC", "CH4"} ELSE {"SO2"}

RecNeg(r) == [k \in DOMAIN r |-> SeqNeg(r[k])]

C8_MixedNegation ==
    (mix.pc = "done" /\ mix.pollutant # "CO2") =>
        \A other \in OppositeOf(mix.pollutant) :
            /\ mix.emiss =
                  SeqNeg(mixed_scen_emiss(other, mix.delta_emiss_mass, mix.magnitudes,
                             mix.emiss_scenarios, mix.time_horizons, mix.time_step))
            /\ mix.temperature =
                  SeqNeg(mixed_scenario_temperature(SeqNeg(mix.emiss), mix.artp,
                                                    mix.time_step))

C8_SingleNegation ==
    (single.pc = "done" /\ single.pollutant # "CO2") =>
        \A other \in OppositeOf(single.pollutant) :
            /\ single.emiss =
                  RecNeg(scen_emiss_lists(other, single.delta_emiss_mass,
                             single.magnitude, single.time_horizon, single.time_step,
                             single.sin_pi))
            /\ single.temperature =
                  RecNeg(scen_temperature(RecNeg(single.emiss), single.artp,
                                          single.time_step))

C8_SO2Negation == C8_MixedNegation /\ C8_SingleNegation

C8_Witness ==
    /\ mix.pc = "done"
    /\ mix.pollutant = "SO2"
    /\ Len(mix.time_horizons) = 2
    /\ \A t \in DOMAIN mix.temperature : mix.temperature[t] # RZero

(* C9: for a single sustained segment taking SO2 emissions from 100% to 0%  *)
(* and an artp series whose values all have the same sign, the absolute     *)
(* value of the response never decreases with the time index and every      *)
(* response value has the sign sign(emission perturbation) * sign(artp).    *)
SameSign(s) == \A i, j \in DOMAIN s : RSign(s[i]) = RSign(s[j])

C9_Case ==
    /\ mix.pc = "done"
    /\ mix.pollutant = "SO2"
    /\ mix.emiss_scenarios = <<"sustained">>
    /\ mix.magnitudes = <<0>>
    /\ SameSign(mix.artp)

IntSign(k) == IF k > 0 THEN 1 ELSE IF k < 0 THEN -1 ELSE 0

C9_MonotonicOneSign ==
    C9_Case =>
        /\ \A t \in 1..(Len(mix.temperature) - 1) :
              RLeq(RAbs(mix.temperature[t]), RAbs(mix.temperature[t + 1]))
        /\ \A t \in DOMAIN mix.temperature :
              RSign(mix.temperature[t]) = IntSign(mix.delta_emiss_mass) * RSign(mix.artp[1])

C9_Witness ==
    /\ C9_Case
    /\ Len(mix.temperature) >= 3
    /\ RLeq(mix.artp[2], mix.artp[1]) /\ mix.artp[2] # mix.artp[1]
    /\ mix.temperature[1] # mix.temperature[2]

(* C3: for the single-lifetime pollutants slp.compute_atp and               *)
(* slp.compute_app fail with an invalid-parameter error and return no       *)
(* potentials whenever th < 5, and accept every th >= 5 (5 included).       *)
C3_Case == pot.module = "slp" /\ pot.pollutant \in {"SO2", "BC", "CH4"}

C3_MinimumHorizon ==
    (C3_Case /\ pot.pc # "call") =>
        IF pot.th.n < 5 * pot.th.d
        THEN pot.pc = "AssertionError" /\ pot.error = "th" /\ pot.result = <<>>
        ELSE pot.pc = "done"

C3_Witness ==
    /\ C3_Case
    /\ pot.th = RInt(5)
    /\ pot.fn = "compute_app"
    /\ pot.pc = "done"
    /\ pot.error = "none"

(* C10: in slp.compute_app and co2.compute_app, for precip_avg # 0, the     *)
(* totals are the sums of their components: arpp = slow_arpp + fast_arpp    *)
(* and iarpp = slow_iarpp + fast_iarpp.                                     *)
C10_Case ==
    /\ pot.pc = "done"
    /\ pot.fn = "compute_app"
    /\ pot.precip_avg # RZero

C10_TotalsAreSums ==
    C10_Case =>
        /\ pot.result.arpp = RAdd(pot.result.slow_arpp, pot.result.fast_arpp)
        /\ pot.result.iarpp = RAdd(pot.result.slow_iarpp, pot.result.fast_iarpp)

C10_Witness ==
    /\ C10_Case
    /\ pot.module = "co2"
    /\ pot.result.slow_arpp # RZero
    /\ pot.result.fast_arpp # RZero
    /\ pot.result.arpp # RZero

(* C11: in slp.compute_app and co2.compute_app two calls that differ only   *)
(* in rad_eff or in the scaled climate sensitivity return the same          *)
(* fast_arpp and fast_iarpp, and two calls that differ only in rad_eff_a    *)
(* return the same slow_arpp and slow_iarpp.                                *)
C11_OtherCall(rad_eff, rad_eff_a, c_scaling) ==
    compute_app(pot.pollutant, rad_eff, rad_eff_a, c_scaling, pot.kernel,
                pot.rr_precip_avg, pot.precip_avg)

C11_ComponentsIndependent ==
    C10_Case =>
        /\ \A rad_eff \in RadEffs, c_scaling \in CScalings :
              LET other == C11_OtherCall(rad_eff, pot.rad_eff_a, c_scaling)
              IN  /\ other.fast_arpp = pot.result.fast_arpp
                  /\ other.fast_iarpp = pot.result.fast_iarpp
        /\ \A rad_eff_a \in RadEffs :
              LET other == C11_OtherCall(pot.rad_eff, rad_eff_a, pot.c_scaling)
              IN  /\ other.slow_arpp = pot.result.slow_arpp
                  /\ other.slow_iarpp = pot.result.slow_iarpp

(* A call whose components are not zero, whose slow component changes with  *)
(* rad_eff and whose fast component changes with rad_eff_a                   *)
C11_Witness ==
    /\ C10_Case
    /\ pot.module = "slp"
    /\ pot.result.fast_arpp # RZero
    /\ pot.result.slow_iarpp # RZero
    /\ \E rad_eff \in RadEffs :
          C11_OtherCall(rad_eff, pot.rad_eff_a, pot.c_scaling).slow_arpp
              # pot.result.slow_arpp
    /\ \E rad_eff_a \in RadEffs :
          C11_OtherCall(pot.rad_eff, rad_eff_a, pot.c_scaling).fast_arpp
              # pot.result.fast_arpp

(* C12: slp.compute_atp accepts optional flags that disable the             *)
(* climate-sensitivity scaling and/or the ERF multi-model scaling, both     *)
(* enabled by default: a call without flags returns what the call with both *)
(* flags enabled returns, computed with C_scaled[j] = C_j * c_scaling, and  *)
(* a call with the climate-sensitivity scaling disabled returns the         *)
(* potentials computed with the unscaled C1, C2.                            *)
C12_Potentials(rad_eff, c1, c2, kernel) ==
    [iatp |-> RMul(rad_eff, RAdd(RMul(c1, kernel.kI[1]), RMul(c2, kernel.kI[2]))),
     atp  |-> RMul(rad_eff, RAdd(RMul(c1, kernel.kP[1]), RMul(c2, kernel.kP[2])))]

C12_Enabled(flag) == flag \in {"omitted", "True"}

C18_Case ==
    /\ stat.pc = "done"
    /\ stat.fn = "compute_ratio_std"
    /\ stat.avg_a # RZero
    /\ stat.avg_b # RZero

C18_Radicand(a, b, var_a, var_b, cov) ==
    RDiv(RAdd(RAdd(RMul(var_a, RMul(b, b)), RMul(var_b, RMul(a, a))),
              RMul(RInt(2), RMul(cov, RMul(a, b)))),
         RMul(RMul(a, a), RMul(b, b)))

C18_RatioStd ==
    C18_Case =>
        LET a == stat.avg_a
            b == stat.avg_b
            x == C18_Radicand(a, b, stat.std_a.sq, stat.std_b.sq, stat.cov)
        IN  /\ RSign(x) < 0 => RootIsNaN(stat.result)
            /\ RSign(x) >= 0 =>
                  /\ stat.result.sgn >= 0
                  /\ stat.result.sq = RDiv(RMul(RMul(a, a), x), RMul(b, b))
            /\ stat.cov = RZero =>
                  stat.result.sq =
                      RMul(RDiv(RMul(a, a), RMul(b, b)),
                           RAdd(RDiv(stat.std_a.sq, RMul(a, a)),
                                RDiv(stat.std_b.sq, RMul(b, b))))
            /\ (a = RInt(2) /\ b = RInt(1) /\ stat.std_a = RootOf(Rat(1, 10))
                  /\ stat.std_b = RootOf(Rat(1, 20)) /\ stat.cov = RZero) =>
                  stat.result.sq = Rat(2, 100)

C18_Witness ==
    /\ C18_Case
    /\ stat.avg_a = RInt(2)
    /\ stat.avg_b = RInt(1)
    /\ stat.std_a = RootOf(Rat(1, 10))
    /\ stat.std_b = RootOf(Rat(1, 20))
    /\ stat.cov = Rat(1, 100)
    /\ stat.result.sq = Rat(6, 100)

(* C19: compute_stats(sample) returns the mean over the non-missing values, *)
(* the standard deviation with divisor n - 1 over the non-missing values    *)
(* (n their number) and that standard deviation divided by sqrt(n);         *)
(* [1, nan, 3] gives mean 2 with n = 2, [1, 2, 3, 4, 5] gives mean 3 and    *)
(* variance 2.5.  The variance is stated as                                 *)
(* (n * sum x^2 - (sum x)^2) / (n * (n - 1)).                               *)
C19_Present(variable) == {i \in DOMAIN variable : variable[i].d # 0}

RECURSIVE C19_PowerSum(_, _, _)
C19_PowerSum(variable, idx, power) ==
    IF idx = {} THEN RZero
    ELSE LET i == CHOOSE j \in idx : TRUE
             x == variable[i]
         IN  RAdd(IF power = 2 THEN RMul(x, x) ELSE x,
                  C19_PowerSum(variable, idx \ {i}, power))

C19_Case == stat.pc = "done" /\ stat.fn = "compute_stats"

C19_ComputeStats ==
    C19_Case =>
        LET idx == C19_Present(stat.variable)
            n == Cardinality(idx)
            s1 == C19_PowerSum(stat.variable, idx, 1)
            s2 == C19_PowerSum(stat.variable, idx, 2)
        IN  /\ n >= 1 => stat.result.avg = RDiv(s1, RInt(n))
            /\ n >= 2 =>
                  /\ stat.result.std.sgn >= 0
                  /\ stat.result.std.sq =
                        RDiv(RAdd(RMul(RInt(n), s2), RNeg(RMul(s1, s1))), RInt(n * (n - 1)))
                  /\ stat.result.std_err.sgn >= 0
                  /\ RMul(stat.result.std_err.sq, RInt(n)) = stat.result.std.sq
            /\ stat.variable = <<RInt(1), NaN, RInt(3)>> =>
                  /\ stat.result.avg = RInt(2)
                  /\ stat.result.std.sq = RInt(2)
                  /\ stat.result.std_err.sq = RInt(1)
            /\ stat.variable = <<RInt(1), RInt(2), RInt(3), RInt(4), RInt(5)>> =>
                  /\ stat.result.avg = RInt(3)
                  /\ stat.result.std.sq = Rat(5, 2)
                  /\ stat.result.std_err.sq = Rat(1, 2)

C19_Witness ==
    /\ C19_Case
    /\ stat.variable = <<RInt(1), NaN, RInt(3)>>
    /\ stat.result.avg = RInt(2)
    /\ stat.result.std_err.sq = RInt(1)

(* ---- Claims about the uncertainty propagation -------------------------- *)

UncReturned == unc.pc \in {"done", "scaled"}

(* (std_err / avg) ** 2 of a statistic                                      *)
RelativeSq(std_err, avg) == FDiv(std_err.sq, FMul(avg, avg))

(* The response regions a call is about                                     *)
RegionNames ==
    IF \E i \in DOMAIN unc.response_regions : unc.response_regions[i] = "All regions"
    THEN get_response_regions ELSE unc.response_regions

(* The row of a response region in the control statistics                   *)
RegionRow(region) ==
    CHOOSE j \in DOMAIN get_response_regions : get_response_regions[j] = region

(* Squared relative uncertainty of the regional / global ratio in row j     *)
RatioRelativeSq(ratio_std_err, reg_avg, glo_avg, j) ==
    RelativeSq(ratio_std_err[j], FDiv(reg_avg[j], glo_avg))

ForcingRelativeSq ==
    FAdd(RelativeSq(unc.stats.reg_erf_std_err, unc.stats.reg_erf_avg),
         RelativeSq(unc.stats.glo_erf_std_err, unc.stats.glo_erf_avg))

AdjustedForcingRelativeSq ==
    FAdd(RelativeSq(unc.stats.reg_erfa_std_err, unc.stats.reg_erfa_avg),
         RelativeSq(unc.stats.glo_erfa_std_err, unc.stats.glo_erfa_avg))

ScalingRelativeSq == RelativeSq(unc.stats.c_scaling_std_err, unc.stats.c_scaling_avg)

SensitivityRelativeSq == FSq(FDiv(unc.stats.k_std, unc.stats.k))

(* The three quadrature sums with the ratio terms of row j                  *)
ArtpRelativeSq(j) ==
    FAdd(FAdd(ForcingRelativeSq,
              RatioRelativeSq(unc.stats.temp_ratio_std_err, unc.stats.reg_temp_avg,
                              unc.stats.glo_temp_avg, j)),
         ScalingRelativeSq)

SlowArppRelativeSq(j) ==
    FAdd(FAdd(FAdd(ForcingRelativeSq,
                   RatioRelativeSq(unc.stats.precip_ratio_std_err,
                                   unc.stats.reg_precip_avg,
                                   unc.stats.glo_precip_avg, j)),
              ScalingRelativeSq),
         SensitivityRelativeSq)

FastArppRelativeSq(j) ==
    FAdd(AdjustedForcingRelativeSq,
         RatioRelativeSq(unc.stats.precip_ratio_std_err, unc.stats.reg_precip_avg,
                         unc.stats.glo_precip_avg, j))

(* C13: for every response region i of the call, the squared relative ARTP  *)
(* uncertainty returned is the sum of the squared relative uncertainties of *)
(* regional ERF, global ERF, the temperature ratio of that region and       *)
(* c_scaling; the slow-ARPP one the sum for regional ERF, global ERF, the   *)
(* precipitation ratio of that region, c_scaling and k; the fast-ARPP one   *)
(* the sum for regional ERFa, global ERFa and the precipitation ratio of    *)
(* that region.                                                             *)
C13_QuadratureOfRegion ==
    UncReturned =>
        /\ Len(unc.result.artp_total_std) = Len(RegionNames)
        /\ \A i \in DOMAIN RegionNames :
              LET j == RegionRow(RegionNames[i])
              IN  /\ unc.result.artp_total_std[i].sq = ArtpRelativeSq(j)
                  /\ unc.result.slow_arpp_total_std[i].sq = SlowArppRelativeSq(j)
                  /\ unc.result.fast_arpp_total_std[i].sq = FastArppRelativeSq(j)

(* The same sums with the ratio terms of row i of the all-regions table,    *)
(* whatever the i-th region of the call is                                  *)
QuadratureOfRow ==
    UncReturned =>
        \A i \in DOMAIN RegionNames :
            /\ unc.result.artp_total_std[i].sq = ArtpRelativeSq(i)
            /\ unc.result.slow_arpp_total_std[i].sq = SlowArppRelativeSq(i)
            /\ unc.result.fast_arpp_total_std[i].sq = FastArppRelativeSq(i)

RealNonNegative(r) == IsFinite(r.sq) /\ FSign(r.sq) >= 0 /\ r.sgn >= 0

(* Every average the propagation divides by, for the rows the call reads    *)
DenominatorsNonZero ==
    /\ unc.stats.reg_erf_avg # RZero
    /\ unc.stats.reg_erfa_avg # RZero
    /\ unc.stats.glo_erf_avg # RZero
    /\ unc.stats.glo_erfa_avg # RZero
    /\ unc.stats.c_scaling_avg # RZero
    /\ unc.stats.k # RZero
    /\ unc.stats.glo_temp_avg # RZero
    /\ unc.stats.glo_precip_avg # RZero
    /\ \A i \in DOMAIN RegionNames :
          unc.stats.reg_temp_avg[i] # RZero /\ unc.stats.reg_precip_avg[i] # RZero

UncLoaded == unc.pc \in {"loaded", "done", "scaled"}

C16_ZeroDenominatorFails ==
    UncReturned =>
        /\ DenominatorsNonZero
        /\ \A i \in DOMAIN RegionNames :
              /\ IsFinite(unc.result.artp_total_std[i].sq)
              /\ IsFinite(unc.result.slow_arpp_total_std[i].sq)
              /\ IsFinite(unc.result.fast_arpp_total_std[i].sq)

(* C17: for CO2 and CH4, whatever the emission region, the regional ERF and *)
(* ERFa averages are exactly 1 with standard error exactly 0 and the three  *)
(* relative uncertainties hold no regional-forcing contribution; for SO2    *)
(* ERFa = fp * ERF with standard error |fp| * ERF standard error, so both   *)
(* have the same relative uncertainty.                                      *)
C17_RegionalForcing ==
    UncLoaded =>
        /\ unc.pollutant \in {"CO2", "CH4"} =>
              /\ unc.stats.reg_erf_avg = RInt(1)
              /\ unc.stats.reg_erfa_avg = RInt(1)
              /\ unc.stats.reg_erf_std_err.sq = RZero
              /\ unc.stats.reg_erfa_std_err.sq = RZero
              /\ UncReturned =>
                    \A i \in DOMAIN RegionNames :
                        LET glo == RelativeSq(unc.global.erf_std_err, unc.global.erf_avg)
                            gloa == RelativeSq(unc.global.erfa_std_err,
                                               unc.global.erfa_avg)
                            temp == RatioRelativeSq(unc.stats.temp_ratio_std_err,
                                                    unc.stats.reg_temp_avg,
                                                    unc.stats.glo_temp_avg, i)
                            precip == RatioRelativeSq(unc.stats.precip_ratio_std_err,
                                                      unc.stats.reg_precip_avg,
                                                      unc.stats.glo_precip_avg, i)
                        IN  /\ unc.result.artp_total_std[i].sq =
                                   FAdd(FAdd(glo, temp), ScalingRelativeSq)
                            /\ unc.result.slow_arpp_total_std[i].sq =
                                   FAdd(FAdd(FAdd(glo, precip), ScalingRelativeSq),
                                        SensitivityRelativeSq)
                            /\ unc.result.fast_arpp_total_std[i].sq = FAdd(gloa, precip)
        /\ unc.pollutant = "SO2" =>
              /\ unc.stats.reg_erf_avg = unc.regional.erf_avg
              /\ unc.stats.reg_erf_std_err = unc.regional.erf_std_err
              /\ unc.stats.reg_erfa_avg = FMul(Rat(-4, 10), unc.regional.erf_avg)
              /\ unc.stats.reg_erfa_std_err.sq =
                     FMul(Rat(16, 100), unc.regional.erf_std_err.sq)
              /\ unc.stats.reg_erfa_std_err.sgn >= 0
              /\ unc.regional.erf_avg # RZero =>
                     RelativeSq(unc.stats.reg_erfa_std_err, unc.stats.reg_erfa_avg) =
                     RelativeSq(unc.stats.reg_erf_std_err, unc.stats.reg_erf_avg)

(* A CO2 call whose regional ERF files hold an uncertain forcing other than *)
(* 1 returned finite uncertainties                                          *)
C17_Witness ==
    /\ unc.pc = "done"
    /\ unc.pollutant = "CO2"
    /\ unc.emission_region = "Europe"
    /\ unc.regional.erf_avg = RInt(2)
    /\ unc.regional.erf_std_err.sq # RZero
    /\ unc.stats.reg_erf_avg = RInt(1)
    /\ unc.response_regions = <<"Global", "Tropics">>
    /\ IsFinite(unc.result.artp_total_std[1].sq)
    /\ IsFinite(unc.result.fast_arpp_total_std[1].sq)

(* C20: the call fails with an invalid-parameter error before any statistic *)
(* or forcing data is loaded when the pollutant is not SO2, BC, CO2 or CH4, *)
(* when the pollutant is BC and the emission region is not Global or Asia,  *)
(* or when the pollutant is not BC and the emission region is not NHML, US, *)
(* China, EastAsia, India or Europe; every other pair passes validation.    *)
C20_Validation ==
    LET valid ==
            /\ unc.pollutant \in {"SO2", "BC", "CO2", "CH4"}
            /\ IF unc.pollutant = "BC"
               THEN unc.emission_region \in {"Global", "Asia"}
               ELSE unc.emission_region \in
                        {"NHML", "US", "China", "EastAsia", "India", "Europe"}
    IN  /\ unc.pc = "call" => unc.loads = 0
        /\ (unc.pc \notin {"idle", "call"} /\ valid) =>
              unc.pc # "AssertionError" /\ unc.loads > 0
        /\ (unc.pc \notin {"idle", "call"} /\ ~valid) =>
              /\ unc.pc = "AssertionError"
              /\ unc.loads = 0
              /\ DOMAIN unc.stats = {}
              /\ DOMAIN unc.result = {}

(* BC with an emission region that is valid for the other pollutants only   *)
C20_Witness ==
    /\ unc.pc = "AssertionError"
    /\ unc.pollutant = "BC"
    /\ unc.emission_region = "Europe"
    /\ unc.error = "emission_region"
    /\ unc.loads = 0

(* What a call for all response regions returns from the same statistics    *)
AllRegionsResult == total_stds(unc.stats, Len(get_response_regions))

(* C21: for every list of response regions, each returned array has one     *)
(* element per requested region, and element i is the value of the i-th     *)
(* requested region, i.e. the one a call for all regions returns in that    *)
(* region's row, not the value of any other region.                         *)
C21_ElementOfRequestedRegion ==
    UncReturned =>
        /\ Len(unc.result.artp_total_std) = Len(unc.response_regions)
               \/ unc.response_regions = <<"All regions">>
        /\ Len(unc.result.slow_arpp_total_std) = Len(unc.result.artp_total_std)
        /\ Len(unc.result.fast_arpp_total_std) = Len(unc.result.artp_total_std)
        /\ \A i \in DOMAIN RegionNames :
              LET row == RegionRow(RegionNames[i])
              IN  /\ unc.result.artp_total_std[i] = AllRegionsResult.artp_total_std[row]
                  /\ unc.result.slow_arpp_total_std[i] =
                         AllRegionsResult.slow_arpp_total_std[row]
                  /\ unc.result.fast_arpp_total_std[i] =
                         AllRegionsResult.fast_arpp_total_std[row]

(* ---- Claims about the shapes of the emission trajectories -------------- *)

(* The full increment of a single-scenario trajectory                       *)
FullIncrement ==
    IF single.pollutant = "SO2"
    THEN Rat(single.delta_emiss_mass * (100 - single.magnitude), 100)
    ELSE Rat(single.delta_emiss_mass * (single.magnitude - 100), 100)

(* The full increment of the first segment of a mixed scenario of a         *)
(* single-lifetime pollutant                                                *)
FirstIncrement ==
    Rat((IF mix.pollutant = "SO2" THEN -1 ELSE 1) * mix.delta_emiss_mass
            * (mix.magnitudes[1] - 100), 100)

FirstSegmentSteps ==
    1..(mix.time_horizons[1] * (mix.time_step.d \div mix.time_step.n))

(* A fraction series starts at 0 and stays within [0, 1]                    *)
UnitFractions(values, steps, increment) ==
    \A i \in steps :
        LET f == RDiv(values[i], increment)
        IN  /\ RLeq(RZero, f)
            /\ RLeq(f, RInt(1))
            /\ (\A j \in steps : i <= j) => f = RZero

(* C22: in the linear and quadratic segments of a mixed scenario and in the *)
(* linear and quadratic trajectories of a single scenario, the fraction of  *)
(* the increment applied starts at 0 at the first step and lies within      *)
(* [0, 1] at every step. Stated for the first segment of mixed scenarios of *)
(* SO2, BC and CH4 and for every single scenario.                           *)
C22_FractionWithinUnit ==
    /\ (/\ single.pc \in {"built", "done"}
        /\ FullIncrement # RZero) =>
           /\ UnitFractions(single.emiss.linear, DOMAIN single.emiss.linear,
                            FullIncrement)
           /\ UnitFractions(single.emiss.quadratic, DOMAIN single.emiss.quadratic,
                            FullIncrement)
    /\ (/\ MixedHasEmiss
        /\ mix.pollutant # "CO2"
        /\ mix.emiss_scenarios[1] \in {"linear", "quadratic"}
        /\ FirstIncrement # RZero) =>
           UnitFractions(mix.emiss, FirstSegmentSteps, FirstIncrement)

(* The linear fraction of a single scenario never exceeds 1                 *)
FractionAtMostOne ==
    (single.pc \in {"built", "done"} /\ FullIncrement # RZero) =>
        \A i \in DOMAIN single.emiss.linear :
            RLeq(RDiv(single.emiss.linear[i], FullIncrement), RInt(1))

(* The fractions of the first segment of a mixed scenario lie in [0, 1]     *)
MixedFractionAtMostOne ==
    (/\ MixedHasEmiss
     /\ mix.pollutant # "CO2"
     /\ mix.emiss_scenarios[1] \in {"linear", "quadratic"}
     /\ FirstIncrement # RZero) =>
        \A i \in FirstSegmentSteps :
            /\ RLeq(RZero, RDiv(mix.emiss[i], FirstIncrement))
            /\ RLeq(RDiv(mix.emiss[i], FirstIncrement), RInt(1))

(* ---- Claims about the radiative efficiency ----------------------------- *)

(* C23: for every single-lifetime pollutant (SO2, BC and CH4 alike) the     *)
(* regional, global and atmospheric radiative efficiencies are driven by    *)
(* the ERF multiplied by rf_scaling: rr_rad_eff[i] = ERF * rf_scaling *     *)
(* (rr_temp_avg[i] / temp_avg) / (delta_emiss_mass * tau).                  *)
C23_ErfScaledForAll ==
    (eff.pc = "done" /\ eff.pollutant \in {"SO2", "BC", "CH4"}) =>
        LET tau == IF eff.pollutant = "SO2" THEN Rat(435, 36500)
                   ELSE IF eff.pollutant = "BC" THEN Rat(68, 3650)
                   ELSE Rat(12028, 1000)
            den == RMul(eff.delta_emiss_mass, tau)
        IN  /\ \A i \in DOMAIN eff.rr_temp_avg :
                  eff.result.rr_rad_eff[i] =
                      RDiv(RMul(RMul(eff.erf, eff.RF_scaling),
                                RDiv(eff.rr_temp_avg[i], eff.temp_avg)), den)
            /\ eff.result.rad_eff = RDiv(RMul(eff.erf, eff.RF_scaling), den)
            /\ eff.result.rad_eff_a = RDiv(RMul(eff.erf_a, eff.RF_scaling), den)

(* The same for SO2 alone                                                   *)
ErfScaledForSO2 == eff.pollutant = "SO2" => C23_ErfScaledForAll

(* ---- Claims about the region masks ------------------------------------- *)

SupportedRegions ==
    {"Global", "Tropics", "NHML", "NHHL", "SHML", "SHHL", "Europe", "US", "China",
     "East Asia", "India", "Sahel", "Asia"}

(* C24: a region name that is not a supported region makes get_region_mask  *)
(* and every aggregation that calls it fail with an invalid-parameter error *)
(* naming the region; no mask value is returned for it.                     *)
C24_UnsupportedRegionFails ==
    (mask.pc \notin {"idle", "call"} /\ mask.region \notin SupportedRegions) =>
        /\ mask.pc = "InvalidParameter"
        /\ mask.error = mask.region
        /\ mask.value = "unset"

(* No grid is ever returned for an unsupported name                         *)
NoGridForUnsupportedRegion ==
    mask.region \notin SupportedRegions => mask.value # "array" /\ mask.grid = <<>>

(* C30: for every supported region and every grid cell the mask is 1        *)
(* exactly when the latitude lies in [lat_min, lat_max] and the longitude,  *)
(* taken modulo 360, lies in the region's [lon_min, lon_max] interval, so   *)
(* the masks of Europe and Sahel include the cells west of the Greenwich    *)
(* meridian; the Global mask is 1 on every cell.                            *)
C30_MaskModulo360 ==
    (mask.pc \in {"returned", "aggregated"} /\ mask.value = "array") =>
        LET b == region_bounds(mask.region)
            lon_in(lon) ==
                IF b[1] < 0
                THEN RLeq(RInt(b[1] + 360), lon) \/ RLeq(lon, RInt(b[2]))
                ELSE RLeq(RInt(b[1]), lon) /\ RLeq(lon, RInt(b[2]))
        IN  \A j \in DOMAIN mask.lats, i \in DOMAIN mask.lons :
                LET lon == Rat(15 * mask.lons[i], 8)
                    lat == Rat(5 * mask.lats[j] - 360, 4)
                IN  /\ mask.grid[j][i] \in {0, 1}
                    /\ mask.grid[j][i] = 1 <=>
                           /\ RLeq(RInt(b[3]), lat)
                           /\ RLeq(lat, RInt(b[4]))
                           /\ lon_in(lon)
                    /\ mask.region = "Global" => mask.grid[j][i] = 1

(* The Global mask covers the grid, and the masks of the regions other than *)
(* Europe and Sahel are as C30 states                                       *)
GlobalMaskCoversGrid ==
    (mask.pc \in {"returned", "aggregated"} /\ mask.region = "Global") =>
        \A j \in DOMAIN mask.lats, i \in DOMAIN mask.lons : mask.grid[j][i] = 1

MaskOfEasternRegions == mask.region \notin {"Europe", "Sahel"} => C30_MaskModulo360

(* ---- Claims about samples without valid members ------------------------ *)

(* The number of values of the sample that are not missing                  *)
ValidMembers == Cardinality({i \in DOMAIN stat.variable : stat.variable[i].d # 0})

(* C26: compute_stats applied to a sample with zero non-missing values (an  *)
(* empty sample or one whose members are all missing) escalates to a fatal  *)
(* error instead of returning a mean, a standard deviation or a standard    *)
(* error (NaN included); a sample with some missing and at least two valid  *)
(* members returns normally.                                                *)
C26_NoValidMemberIsFatal ==
    (stat.fn = "compute_stats" /\ stat.pc # "call") =>
        /\ ValidMembers = 0 => stat.pc = "FatalError" /\ stat.result = <<>>
        /\ ValidMembers >= 2 =>
              /\ stat.pc = "done"
              /\ IsFinite(stat.result.avg)
              /\ IsFinite(stat.result.std.sq)
              /\ IsFinite(stat.result.std_err.sq)

(* Samples with at least two valid members return finite statistics         *)
TwoValidMembersReturn ==
    (stat.fn = "compute_stats" /\ stat.pc # "call" /\ ValidMembers >= 2) =>
        /\ stat.pc = "done"
        /\ IsFinite(stat.result.avg)
        /\ IsFinite(stat.result.std.sq)
        /\ IsFinite(stat.result.std_err.sq)

(* ---- Claims about the regional ERF uncertainty ------------------------- *)

(* C25: get_regional_uncertainty called with pollutant 'SO2' raises a       *)
(* ValueError ('SO2 is not an accepted pollutant.') before any forcing      *)
(* table is read and never computes statistics for SO2; BC, CO2 and CH4 are *)
(* accepted.                                                                *)
C25_SO2Rejected ==
    erfu.pc \notin {"idle", "call"} =>
        /\ erfu.pollutant = "SO2" =>
              /\ erfu.pc = "ValueError"
              /\ erfu.error = "SO2 is not an accepted pollutant."
              /\ erfu.files_read = 0
              /\ erfu.result = <<>>
        /\ erfu.pollutant \in {"BC", "CO2", "CH4"} =>
              erfu.error \notin {"pollutant", "SO2 is not an accepted pollutant."}

(* BC, CO2 and CH4 pass the checks of the pollutant                         *)
OtherPollutantsAccepted ==
    (erfu.pc \notin {"idle", "call"} /\ erfu.pollutant \in {"BC", "CO2", "CH4"}) =>
        erfu.error \notin {"pollutant", "SO2 is not an accepted pollutant."}

(* The models of the table that hold both 'base' and the perturbation       *)
(* experiment selected                                                      *)
CompleteModels ==
    SelectSeq([m \in DOMAIN PDRMIP_MODELS |-> m],
              LAMBDA m : /\ PDRMIP_MODELS[m] \notin
                               popped_models(erfu.pollutant, erfu.emission_region)
                         /\ erfu.table[m] = "all")

(* C27: whatever the lookup tables hold, a model lacking the selected       *)
(* perturbation experiment or lacking 'base' is skipped from both samples:  *)
(* the control and perturbation lists handed to compute_stats and           *)
(* compute_covariance have the same length and hold, position by position,  *)
(* values of the same model.                                                *)
C27_SamplesPaired ==
    (erfu.pc \notin {"idle", "call"} /\ erfu.pert_name # "") =>
        /\ Len(erfu.ctl_erf) = Len(erfu.pert_erf)
        /\ erfu.ctl_models = erfu.pert_models
        /\ erfu.ctl_models = CompleteModels

(* Tables whose models hold every experiment give paired samples            *)
CompleteTablesPaired ==
    (\A m \in DOMAIN PDRMIP_MODELS : erfu.table[m] = "all") => C27_SamplesPaired

(* ---- Claims about the mixed-scenario driver ---------------------------- *)

(* The series handed over has max(time_horizons) / time_step elements, the  *)
(* first of them for the first time step                                    *)
FullSeriesHanded ==
    /\ drv.pc = "handed"
    /\ Len(drv.artp_list) * drv.time_step.n = drv.th * drv.time_step.d
    /\ drv.artp_list[1] = drv.time_step

(* C28: for a single-lifetime pollutant (SO2) the loop that evaluates       *)
(* slp.compute_atp at every grid time t = time_step, 2 * time_step, ...,    *)
(* max(time_horizons) runs to completion and eventually hands               *)
(* compute_mixed_scenarios_temperature a pulse-ARTP series of length        *)
(* max(time_horizons) / time_step covering the period from the first time   *)
(* step on. Stated for the time steps that divide one year.                 *)
C28_LoopHandsSeries ==
    (drv.pc = "loop" /\ drv.pol = "SO2" /\ drv.time_step.n = 1) ~> FullSeriesHanded

(* The same for CO2, whose potentials accept every time horizon             *)
CO2LoopHandsSeries ==
    (drv.pc = "loop" /\ drv.pol = "CO2" /\ drv.time_step.n = 1) ~> FullSeriesHanded

(* A single-lifetime loop whose first grid time is below 5 never hands a    *)
(* series over                                                              *)
ShortStepNeverHanded ==
    (drv.pc = "handed" /\ drv.pol # "CO2") => RLeq(RInt(5), drv.time_step)

(* ---- Claims about the interactive selection ---------------------------- *)

SelReturnedScenarios == sel.pc = "returned" /\ sel.result.requested

(* Number of scenarios the user selected                                    *)
SelectedCount == Cardinality({k \in 1..3 : sel.scenarios[k] # 0})

IsMagnitude(m) ==
    /\ "none" \notin DOMAIN m
    /\ ~IsNaN(m)
    /\ ~float_lt(m, RInt(0))
    /\ ~float_lt(RInt(1000), m)

(* C29: whenever select_scenarios returns with scenarios requested, the     *)
(* returned time horizons, shapes and magnitudes describe 1 to 3 segments   *)
(* that satisfy the preconditions of compute_mixed_scenarios_temperature:   *)
(* the three lists have the same length, every shape is one of sustained,   *)
(* linear and quadratic, every magnitude is a number in [0, 1000], and the  *)
(* end times are increasing with the last one equal to the selected         *)
(* overall time horizon.                                                    *)
C29_SegmentsWellFormed ==
    SelReturnedScenarios =>
        LET r == sel.result
            count == Len(r.time_horizons)
        IN  /\ count \in 1..3
            /\ Len(r.scenarios) = count
            /\ Len(r.magnitudes) = count
            /\ \A k \in 1..Len(r.scenarios) : r.scenarios[k] \in SCENARIOS
            /\ \A k \in 1..Len(r.magnitudes) : IsMagnitude(r.magnitudes[k])
            /\ \A k \in 1..(count - 1) : r.time_horizons[k] < r.time_horizons[k + 1]
            /\ r.time_horizons[count] = sel.th

(* What does hold of the returned lists: they have the fixed lengths 3, 4   *)
(* and 3, the scenarios the user selected come first with a valid shape, an *)
(* end time between 5 and the overall time horizon that does not decrease   *)
(* and a magnitude that is not below 0 and not above 1000, the last         *)
(* selected one ends at the overall time horizon, and the rest is padded    *)
(* with 'none', 0 and None                                                  *)
SelectedSegmentsPadded ==
    SelReturnedScenarios =>
        LET r == sel.result
            count == SelectedCount
        IN  /\ count \in 1..3
            /\ Len(r.time_horizons) = 3
            /\ Len(r.scenarios) = 4
            /\ Len(r.magnitudes) = 3
            /\ \A k \in 1..count :
                  /\ r.scenarios[k] \in SCENARIOS
                  /\ r.time_horizons[k] \in 5..sel.th
                  /\ "none" \notin DOMAIN r.magnitudes[k]
                  /\ ~magnitude_rejected(r.magnitudes[k])
            /\ \A k \in 1..(count - 1) : r.time_horizons[k] <= r.time_horizons[k + 1]
            /\ r.time_horizons[count] = sel.th
            /\ \A k \in (count + 1)..3 :
                  /\ r.scenarios[k] = "none"
                  /\ r.time_horizons[k] = 0
                  /\ r.magnitudes[k] = None
            /\ r.scenarios[4] = "none"

(* Refuted: among the selected scenarios the end times strictly increase.   *)
(* The second end time may repeat the first (line 436 tests ths[0] >        *)
(* ths[1]).                                                                 *)
SelectedEndTimesIncrease ==
    SelReturnedScenarios =>
        \A k \in 1..(SelectedCount - 1) :
            sel.result.time_horizons[k] < sel.result.time_horizons[k + 1]

(* Refuted: every selected magnitude is a number in [0, 1000]. float()      *)
(* accepts 'nan', which neither comparison of line 320 rejects.             *)
SelectedMagnitudesAreNumbers ==
    SelReturnedScenarios =>
        \A k \in 1..SelectedCount : IsMagnitude(sel.result.magnitudes[k])

====
